---- MODULE Spec2Model ----
(***************************************************************************)
(* A model of the ReadRSS core (rss-core): the entry model and its         *)
(* identity, the seen-set store, the DataApi stores with their on-disk     *)
(* files, the retry wrapper and the poller.                                 *)
(*                                                                         *)
(* The module holds several specifications over one set of variables; each *)
(* moves the variables of one part of the program and leaves the others    *)
(* at their initial values:                                                *)
(*   SpecSeen   concurrent SeenStore::is_new_and_mark calls, persist, kill  *)
(*   SpecData   the DataApi calls of the front end, from an empty directory *)
(*   SpecLoad   the same, from a directory with files in any state         *)
(*   SpecCache  upsert_articles with larger batches                        *)
(*   SpecSeenKill   SpecSeen with kills of the process                     *)
(*   SpecPollOnce   poll_once calls over a feed list and fixed documents    *)
(*   SpecPoller     the scheduled poller, its event channel and stop        *)
(*   SpecPollerFair SpecPoller with the runtime's scheduling as fairness    *)
(*   SpecRetry      one fetch_feed_with_retries call, attempt by attempt    *)
(*   SpecPolling    SpecPoller or, with no poller spawned, SpecPollOnce     *)
(*   SpecShared     tasks that share one DataApi and call it concurrently   *)
(*   SpecFetch      one fetch_feed call, check by check and chunk by chunk  *)
(*   SpecIdentity   FeedEntry::identity called on one entry                *)
(*   SpecLocks      the guards each operation takes on the four locks      *)
(*   SpecRace       the poller and poll_once on one seen store, by entry   *)
(*   SpecDropped    poller and poll_once once the receiver was dropped      *)
(*   SpecApp        the front end's polls and its handling of the events   *)
(*   SpecAppFeeds   the front end removing and adding feeds between polls   *)
(*   SpecSnapshot   the poller while the front end changes the feed list    *)
(*   SpecMerge      upsert_articles up to and past the cap of a feed        *)
(*   SpecSeenLoad   the seen store loaded over files in any state           *)
(***************************************************************************)
EXTENDS Integers, Sequences, FiniteSets, TLC

\* ------------------------------------------------------------------------
\* Option<T>: None is the empty sequence, Some(x) the one-element sequence.
None == <<>>

Some(x) == <<x>>

IsSome(o) == o # <<>>

Unwrap(o) == o[1]

\* ------------------------------------------------------------------------
\* FeedEntry (feed.rs:16-29).  Only the fields that identity(), the seen
\* set, the read set and the cache ordering read are kept; summary, author,
\* category, content_html and image_url are carried by the program but read
\* by none of the modelled operations.
FeedEntry(feed_id, title, url, published_at, guid) ==
    [feed_id |-> feed_id, title |-> title, url |-> url,
     published_at |-> published_at, guid |-> guid]

\* A variant: the url is looked at before the guid.
identity_urlFirst(e) ==
    IF e.url # "" THEN "url:" \o e.url
    ELSE IF IsSome(e.guid) THEN "guid:" \o Unwrap(e.guid)
    ELSE "title:" \o e.title \o "@" \o
         ToString(IF IsSome(e.published_at) THEN Unwrap(e.published_at) ELSE 0)

\* A variant: the title alone stands for an entry without guid and url.
identity_untimed(e) ==
    IF IsSome(e.guid) THEN "guid:" \o Unwrap(e.guid)
    ELSE IF e.url # "" THEN "url:" \o e.url
    ELSE "title:" \o e.title \o "@0"

\* FeedEntry::identity: "guid:" + guid, else "url:" + url, else
\* "title:" + title + "@" + timestamp (0 when published_at is None).
identity(e) ==
    IF IsSome(e.guid) THEN "guid:" \o Unwrap(e.guid)
    ELSE IF e.url # "" THEN "url:" \o e.url
    ELSE "title:" \o e.title \o "@" \o
         ToString(IF IsSome(e.published_at) THEN Unwrap(e.published_at) ELSE 0)

\* FeedDescriptor (feed.rs:9-14)
FeedDescriptor(id, title, url) == [id |-> id, title |-> title, url |-> url]

\* ------------------------------------------------------------------------
\* Files.  A file is missing, holds one complete serialization (of `data`),
\* or holds bytes that do not parse: the state of a file between its
\* truncation and the end of the write, or after two overlapping writes.
\* Every serialized store is one JSON array or object, so no proper prefix
\* of a serialization parses.
Missing == [kind |-> "missing"]

Corrupt == [kind |-> "corrupt"]

Full(data) == [kind |-> "full", data |-> data]

\* ------------------------------------------------------------------------
\* Bounds of the model.
NumTasks == 2

Tasks == 1 .. NumTasks

\* The number of is_new_and_mark calls SpecSeen starts, and of kills of the
\* process it takes.
MaxCalls == 4

MaxKills == 1

\* The entries SpecSeen's callers pass to is_new_and_mark: two entries of
\* feed "f1" with the same identity (same guid, other fields differing), one
\* of feed "f2" with that identity, and one of "f1" identified by its url.
SeenArgs ==
    { FeedEntry("f1", "t1", "u1", Some(1), Some("a")),
      FeedEntry("f1", "t2", "u2", None, Some("a")),
      FeedEntry("f2", "t1", "u1", Some(1), Some("a")),
      FeedEntry("f1", "t1", "a", Some(1), None) }

\* The number of DataApi calls the front end makes, and of kills taken.
MaxDataCalls == 3

MaxLoadCalls == 1

MaxDataKills == 1

\* The longest batch SpecCache hands to upsert_articles.
MaxBatch == 2

\* data.rs:185 sets MAX_PER_FEED to 300.  The merge, the sort and the
\* truncation read it only in `slot.len() > MAX_PER_FEED`, so the model
\* keeps the code and scales the number to one the batches can exceed.
MAX_PER_FEED == 3

\* The number of upsert_articles calls SpecCache makes.
MaxUpserts == 2

\* What the front end passes to the DataApi calls.
FeedArgs ==
    { FeedDescriptor("f1", "A", "https://a/feed"),
      FeedDescriptor("f1", "A2", "https://a/feed2"),
      FeedDescriptor("f2", "B", "https://b/feed") }

FeedIds == { d.id : d \in FeedArgs }

ReadArgs ==
    { FeedEntry("f1", "t1", "u1", Some(1), Some("a")),
      FeedEntry("f2", "t5", "", None, None) }

\* The articles of the batches: two with the same identity (guid a) and
\* other fields differing, two without a date, one identified by its url
\* and one by its title; more identities than MAX_PER_FEED.
ArticlePool ==
    { FeedEntry("f1", "t1", "u1", Some(2), Some("a")),
      FeedEntry("f1", "t2", "u2", Some(1), Some("a")),
      FeedEntry("f1", "t3", "u3", None, None),
      FeedEntry("f1", "t4", "u4", Some(3), Some("b")),
      FeedEntry("f1", "t5", "", None, None) }

SeqsUpTo(S, n) == UNION { [1 .. k -> S] : k \in 0 .. n }

\* The batches of SpecData and SpecLoad: one article, and two articles of
\* other identities in ascending date order.
DataBatches ==
    { << FeedEntry("f1", "t1", "u1", Some(2), Some("a")) >>,
      << FeedEntry("f1", "t3", "u3", None, None),
         FeedEntry("f1", "t4", "u4", Some(3), Some("b")) >> }

CacheBatches == SeqsUpTo(ArticlePool, MaxBatch)

\* The seconds Utc::now() can advance by.
MaxClock == 1

\* The number of poll_once calls SpecPollOnce makes.
MaxPollCalls == 2

\* The ticks of the scheduled poller's interval SpecPoller takes.
MaxCycles == 2

\* main.rs:34 creates the event channel with mpsc::channel(64).  The
\* poller reads the capacity only through Sender::send, which waits while
\* the channel holds that many events; the model scales it to a number the
\* feeds of one cycle can exceed.
ChanCap == 1

\* retry_backoff_ms is a u64 and `1u64 << (attempt - 1)` a u64 shift
\* (poller.rs:195).  The model keeps the arithmetic and scales the width of
\* the word from 64 bits to WordBits.
WordBits == 3

\* The largest max_retries of a configuration of SpecRetry.
MaxRetries == 4

\* The calls the tasks that share one DataApi make in all.
MaxConcCalls == 2

\* MAX_FEED_BYTES (10 MiB), scaled; the longest chunk and the most chunks a
\* response of SpecFetch gives.
MAX_FEED_BYTES == 4

MaxChunkLen == 3

MaxChunks == 3

\* The calls of identity() made on one entry in SpecIdentity.
MaxIdentityCalls == 2

\* The entries of SpecIdentity: every combination of a guid that is absent,
\* empty or not, a url and a title that are empty or not, and a date that is
\* absent, the epoch, after it or before it.
IdentityArgs ==
    { FeedEntry(f, t, u, d, g) :
        f \in {"f1", "f2"}, t \in {"", "t1"}, u \in {"", "u1"},
        d \in {None, Some(0), Some(1), Some(-1)},
        g \in {None, Some(""), Some("a")} }

\* The one-shot polls the front end of SpecApp makes after its start.
MaxAppPolls == 2

\* The passes over the feed list each runner of SpecRace makes.
MaxRacePasses == 2

\* The urls of SpecFetch; the last one does not parse.
FetchUrls ==
    { "https://a/feed", "http://c/feed", "http://localhost/feed",
      "http://127.0.0.1/feed", "ftp://c/feed", "ftp://localhost/feed",
      "not a url" }

VARIABLES
    seen,        \* SeenStore.inner: feed_id -> set of identities
    seenPath,    \* SeenStore.path is Some (TRUE) or None (FALSE)
    seenFile,    \* seen_store.json
    seenTmp,     \* seen_store.json.tmp, a file the store never writes
    seenLock,    \* per task, its hold on SeenStore.inner: none, read, write
    tpc,         \* per task, its place in is_new_and_mark
    targ,        \* per task, the entry of its call
    tbytes,      \* per task, the serialization made in persist
    tret,        \* per task, the value its call returns
    trueRet,     \* history: per <<feed_id, identity>>, the calls on this store that returned true
    falseRet,    \* history: per <<feed_id, identity>>, the calls on this store that returned false
    seenInit,    \* history: the content the store was constructed with
    recorded,    \* history: the last complete content of seen_store.json
    nCalls,      \* history: calls started
    kills        \* history: kills of the process

seenVars ==
    <<seen, seenPath, seenFile, seenTmp, seenLock, tpc, targ, tbytes, tret, trueRet,
      falseRet, seenInit, recorded, nCalls, kills>>

VARIABLES
    feeds,       \* SharedFeedList: the sequence of FeedDescriptor
    read,        \* DataApi.read_inner.read: feed_id -> set of identities
    articles,    \* DataApi.articles_inner: feed_id -> sequence of FeedEntry
    dfile,       \* feeds.json, read_store.json, articles_store.json
    dtmp,        \* feeds.json.tmp, read_store.json.tmp, articles_store.json.tmp
    dpc,         \* the front end's place in its DataApi call
    dop,         \* the call in progress and its arguments
    pstore,      \* the store whose persist is in progress, or "none"
    pbytes,      \* the serialization made by the persist in progress
    dold,        \* history: per store, what a load recovered before its persist began
    fresh,       \* history: no call was made since load_from_dir
    dcalls,      \* history: calls started
    dkills,      \* history: kills of the process
    derr         \* history: a write or a rename of a persist has failed

dataVars ==
    <<feeds, read, articles, dfile, dtmp, dpc, dop, pstore, pbytes, dold,
      fresh, dcalls, dkills, derr>>

VARIABLES
    now,         \* Utc::now(), in seconds
    docs,        \* per feed id, the document its url serves
    rcfg,        \* PollConfig: max_retries and retry_backoff_ms
    overflow_checks, \* the build: arithmetic overflow panics (TRUE) or wraps
    opc,         \* poll_once: its place
    osnap,       \* poll_once: the feeds still to poll
    oout,        \* poll_once: `out`, the events pushed so far
    oret,        \* history: what each poll_once call returned
    ofailed      \* history: per poll_once call, the feeds whose fetch failed

onceVars == <<opc, osnap, oout, oret, ofailed>>

VARIABLES
    qpc,         \* the poller task's place
    qsnap,       \* feeds_snapshot: the feeds of this cycle still to poll
    qevt,        \* the event the task is sending
    qcycles,     \* history: ticks taken
    chan,        \* the mpsc channel of events
    rxDropped,   \* the channel's Receiver was dropped
    cancelSent,  \* cancel_tx.send(()) has put () in the broadcast channel
    stopState,   \* PollerHandle::stop: none (not called), joining, returned
    stopAt,      \* history: the poller task's place when stop was called
    qfailed,     \* history: the feeds whose fetch failed in this cycle
    qdone,       \* history: the feeds whose fetch succeeded in this cycle
    qdropped     \* history: the (feed_id, identity) pairs of the events
                 \* that were dropped at a closed channel

pollerVars ==
    <<qpc, qsnap, qevt, qcycles, chan, rxDropped, cancelSent, stopState,
      stopAt, qfailed, qdone, qdropped>>

VARIABLES
    rpc,         \* fetch_feed_with_retries: its place
    attempt,     \* its local `attempt`
    rfetches,    \* history: fetch_feed calls made
    rfails,      \* history: fetch_feed calls that returned an error
    rsleeps,     \* history: the backoffs slept, in milliseconds
    rlast,       \* history: the result of the last fetch_feed call
    rresult      \* what fetch_feed_with_retries returned

retryVars == <<rpc, attempt, rfetches, rfails, rsleeps, rlast, rresult>>

VARIABLES
    cpc,         \* per task sharing one DataApi: its place in its call
    cop,         \* per task: the call in progress and its arguments
    cbytes,      \* per task: the serialization its persist has made
    rlock,       \* per task: its hold on the RwLock of read_inner
    ccalls,      \* history: calls started by these tasks
    cerr         \* history: a write or a rename of these tasks has failed

concVars == <<cpc, cop, cbytes, rlock, ccalls, cerr>>

VARIABLES
    fetch_pc,       \* one call of fetch_feed: its place
    feed_url,       \* feed.url
    sent,           \* history: the request was handed to the client
    content_length, \* response.content_length()
    stream,         \* the lengths of the chunks the stream has yet to give
    bytes_buf,      \* bytes_buf.len()
    chunks_read,    \* history: chunks taken from the stream
    fetch_result    \* what fetch_feed returned

fetchVars ==
    <<fetch_pc, feed_url, sent, content_length, stream, bytes_buf,
      chunks_read, fetch_result>>

VARIABLES
    id_entry,       \* the FeedEntry whose identity() is called
    id_out          \* history: the strings its calls returned

identVars == <<id_entry, id_out>>

VARIABLES
    lk_prog,        \* per task: the lock steps left of the operation it runs
    lk_held,        \* per task: the guards it holds, as <<store, mode>>
    lk_queue        \* per store: the tasks waiting for its lock, oldest first

lockVars == <<lk_prog, lk_held, lk_queue>>

VARIABLES
    race_pc,        \* per runner: "idle", "feeds" (between two feeds) or
                    \* "entries" (in the filter loop of a feed)
    race_snap,      \* per runner: the feeds it has still to fetch
    race_feed,      \* per runner: the id of the feed it filters
    race_entries,   \* per runner: the entries it has still to test
    race_new,       \* per runner: new_entries
    race_passes,    \* per runner: the passes it started
    emitted         \* history: per (feed_id, identity), the runners that
                    \* put it in an event, one item per occurrence

raceVars ==
    <<race_pc, race_snap, race_feed, race_entries, race_new, race_passes,
      emitted>>

VARIABLES
    app_pc,         \* the front end: "new" before RssApp::new, then "running"
    app_polls,      \* the one-shot polls made after the start
    app_obtained,   \* history: the (feed_id, identity) pairs of the batches
                    \* the front end got from a poll or from the channel
    app_upserted,   \* history: the pairs it handed to upsert_articles
    app_last,       \* history: what its last one-shot poll fetched and reported
    app_removed     \* history: the pairs seen of a feed when it was removed

appVars ==
    <<app_pc, app_polls, app_obtained, app_upserted, app_last, app_removed>>

VARIABLES
    cyc             \* history: per runner ("once", "poller"), the inputs
                    \* and the events of its current pass over the feeds

envVars == <<now, docs, rcfg, overflow_checks>>

vars ==
    <<seenVars, dataVars, envVars, onceVars, pollerVars, retryVars, concVars,
      fetchVars, identVars, lockVars, raceVars, appVars, cyc>>

\* The variables of the seen store that only its own steps move.
seenSteps ==
    <<seenPath, seenTmp, seenLock, tpc, targ, tbytes, tret, trueRet, falseRet,
      seenInit, recorded, nCalls, kills>>

\* What the actions of one part leave alone.
exceptSeen ==
    <<seenTmp, dataVars, envVars, onceVars, pollerVars, retryVars, concVars, fetchVars,
      identVars, lockVars, raceVars, appVars, cyc>>

exceptData ==
    <<seenVars, envVars, onceVars, pollerVars, retryVars, concVars, fetchVars,
      identVars, lockVars, raceVars, appVars, cyc>>

exceptOnce ==
    <<seenSteps, dataVars, docs, rcfg, overflow_checks, pollerVars, retryVars,
      concVars, fetchVars, identVars, lockVars, raceVars, appVars>>

exceptPoller ==
    <<seenSteps, dataVars, docs, rcfg, overflow_checks, onceVars, retryVars,
      concVars, fetchVars, identVars, lockVars, raceVars, appVars>>

exceptRetry ==
    <<seenVars, dataVars, now, docs, rcfg, overflow_checks, onceVars,
      pollerVars, concVars, fetchVars, identVars, lockVars,
      raceVars, appVars, cyc>>

\* What the tasks that share one DataApi leave alone, the other fields of
\* the DataApi included.
exceptConc ==
    <<seenVars, envVars, onceVars, pollerVars, retryVars, fetchVars,
      identVars, lockVars, raceVars, appVars, cyc,
      articles, dpc, dop, pstore, pbytes, dold, fresh, dcalls, dkills, derr>>

\* What one call of fetch_feed leaves alone.
exceptFetch ==
    <<seenVars, dataVars, envVars, onceVars, pollerVars, retryVars, concVars,
      identVars, lockVars, raceVars, appVars, cyc>>

\* What the steps of the locks leave alone.
exceptLock ==
    <<seenVars, dataVars, envVars, onceVars, pollerVars, retryVars, concVars,
      fetchVars, identVars, raceVars, appVars, cyc>>

\* What the runners that share the seen store leave alone.
exceptRace ==
    <<seenSteps, dataVars, now, docs, rcfg, overflow_checks, onceVars,
      pollerVars, retryVars, concVars, fetchVars, identVars, lockVars,
      appVars, cyc>>

\* What the handlers of the front end leave alone.
exceptApp ==
    <<seenSteps, seenFile, envVars, dfile, dtmp, dpc, dop,
      pstore, pbytes, dold, fresh, dcalls, dkills, derr, onceVars, qpc, qsnap,
      qevt, qcycles, rxDropped, cancelSent, stopState, stopAt, qfailed, qdone,
      qdropped, retryVars, concVars, fetchVars, identVars, lockVars, raceVars,
      cyc>>

\* What a computation of an identity leaves alone.
exceptIdent ==
    <<seenVars, dataVars, envVars, onceVars, pollerVars, retryVars, concVars,
      fetchVars, lockVars, raceVars, appVars, cyc>>

\* ------------------------------------------------------------------------
\* SeenData (storage.rs:11-14) as a function from the feed ids present.
SeenDefault == << >>

SeenContains(data, feed_id, key) ==
    feed_id \in DOMAIN data /\ key \in data[feed_id]

\* A variant that replaces the set of the feed by the new key alone.
SeenInsert_replace(data, feed_id, key) ==
    [f \in DOMAIN data \cup {feed_id} |->
        IF f = feed_id THEN {key} ELSE data[f]]

\* inner.seen.entry(feed_id).or_default() followed by set.insert(key)
SeenInsert(data, feed_id, key) ==
    [f \in DOMAIN data \cup {feed_id} |->
        IF f = feed_id
        THEN (IF f \in DOMAIN data THEN data[f] ELSE {}) \cup {key}
        ELSE data[f]]

\* SeenStore::load_from: a file that cannot be read or does not parse gives
\* the default; there is no temp-file rescue here.
SeenLoadFrom(file) ==
    IF file.kind = "full" THEN file.data ELSE SeenDefault

\* tokio RwLock: a writer excludes everyone, a reader excludes writers.
CanAcquireWrite(t) == \A u \in Tasks : seenLock[u] = "none"

CanAcquireRead(t) == \A u \in Tasks : seenLock[u] # "write"

\* An overlapping write: the bytes of `data` written from offset 0 over what
\* the file holds.  Over an empty or shorter file the result is `data`; over
\* a longer complete serialization a tail of the old bytes remains.
SeenSize(data) ==
    LET RECURSIVE Sum(_)
        Sum(S) == IF S = {} THEN 0
                  ELSE LET f == CHOOSE x \in S : TRUE
                       IN 1 + Cardinality(data[f]) + Sum(S \ {f})
    IN Sum(DOMAIN data)

SeenOverlay(file, data) ==
    IF file.kind = "full" /\ SeenSize(file.data) > SeenSize(data)
    THEN Corrupt
    ELSE Full(data)

SeenKey(e) == <<e.feed_id, identity(e)>>

\* The value of targ of a task that is in no call.
NoArg == FeedEntry("", "", "", None, None)

SeenKeys == { SeenKey(e) : e \in SeenArgs }

\* ------------------------------------------------------------------------
\* SeenStore::is_new_and_mark (storage.rs:63-78), one action per step.

\* storage.rs:63-65: the call starts; key and feed_id are computed.
IsNewAndMark_Call(t) ==
    /\ tpc[t] = "idle"
    /\ nCalls < MaxCalls
    /\ \E e \in SeenArgs : targ' = [targ EXCEPT ![t] = e]
    /\ tpc' = [tpc EXCEPT ![t] = "lock_w"]
    /\ nCalls' = nCalls + 1
    /\ UNCHANGED <<seen, seenPath, seenFile, seenLock, tbytes, tret, trueRet,
                   falseRet, seenInit, recorded, kills>>
    /\ UNCHANGED exceptSeen

\* A variant: the check and the insert made under a shared hold of the lock
IsNewAndMark_Write_shared(t) ==
    /\ tpc[t] = "lock_w"
    /\ CanAcquireRead(t)
    /\ seenLock' = [seenLock EXCEPT ![t] = "read"]
    /\ tpc' = [tpc EXCEPT ![t] = "check"]
    /\ UNCHANGED <<seen, seenPath, seenFile, targ, tbytes, tret, trueRet,
                   falseRet, seenInit, recorded, nCalls, kills>>
    /\ UNCHANGED exceptSeen

\* storage.rs:66: self.inner.write().await
IsNewAndMark_Write(t) ==
    /\ tpc[t] = "lock_w"
    /\ CanAcquireWrite(t)
    /\ seenLock' = [seenLock EXCEPT ![t] = "write"]
    /\ tpc' = [tpc EXCEPT ![t] = "check"]
    /\ UNCHANGED <<seen, seenPath, seenFile, targ, tbytes, tret, trueRet,
                   falseRet, seenInit, recorded, nCalls, kills>>
    /\ UNCHANGED exceptSeen

\* storage.rs:67-69: set.contains(&key); on true the call returns false and
\* the guard is dropped at the end of the function.
IsNewAndMark_Check(t) ==
    /\ tpc[t] = "check"
    /\ IF SeenContains(seen, targ[t].feed_id, identity(targ[t]))
       THEN /\ tret' = [tret EXCEPT ![t] = FALSE]
            /\ seenLock' = [seenLock EXCEPT ![t] = "none"]
            /\ tpc' = [tpc EXCEPT ![t] = "ret"]
       ELSE /\ tpc' = [tpc EXCEPT ![t] = "insert"]
            /\ UNCHANGED <<tret, seenLock>>
    /\ UNCHANGED <<seen, seenPath, seenFile, targ, tbytes, trueRet, falseRet,
                   seenInit, recorded, nCalls, kills>>
    /\ UNCHANGED exceptSeen

\* storage.rs:71-72: set.insert(key); drop(inner).  Without a path persist
\* is a no-op (storage.rs:95-98) and the call returns true.
IsNewAndMark_Insert(t) ==
    /\ tpc[t] = "insert"
    /\ seen' = SeenInsert(seen, targ[t].feed_id, identity(targ[t]))
    /\ seenLock' = [seenLock EXCEPT ![t] = "none"]
    /\ tret' = [tret EXCEPT ![t] = TRUE]
    /\ tpc' = [tpc EXCEPT ![t] = IF seenPath THEN "p_lock" ELSE "ret"]
    /\ UNCHANGED <<seenPath, seenFile, targ, tbytes, trueRet, falseRet,
                   seenInit, recorded, nCalls, kills>>
    /\ UNCHANGED exceptSeen

\* storage.rs:89-90: self.inner.read().await and the serialization of the
\* whole map under the read lock.
Persist_Read(t) ==
    /\ tpc[t] = "p_lock"
    /\ CanAcquireRead(t)
    /\ seenLock' = [seenLock EXCEPT ![t] = "read"]
    /\ tbytes' = [tbytes EXCEPT ![t] = seen]
    /\ tpc' = [tpc EXCEPT ![t] = "p_open"]
    /\ UNCHANGED <<seen, seenPath, seenFile, targ, tret, trueRet, falseRet,
                   seenInit, recorded, nCalls, kills>>
    /\ UNCHANGED exceptSeen

\* storage.rs:94: tokio::fs::write(path, bytes) opens seen_store.json itself
\* and truncates it; when the open fails the file is untouched, persist
\* returns the error and is_new_and_mark logs it (storage.rs:73-75).
Persist_Open(t) ==
    /\ tpc[t] = "p_open"
    /\ \/ /\ seenFile' = Corrupt
          /\ tpc' = [tpc EXCEPT ![t] = "p_write"]
          /\ UNCHANGED seenLock
       \/ /\ seenLock' = [seenLock EXCEPT ![t] = "none"]
          /\ tpc' = [tpc EXCEPT ![t] = "ret"]
          /\ UNCHANGED seenFile
    /\ UNCHANGED <<seen, seenPath, targ, tbytes, tret, trueRet, falseRet,
                   seenInit, recorded, nCalls, kills>>
    /\ UNCHANGED exceptSeen

\* storage.rs:94: the bytes are written; a write that fails leaves a part
\* of them.  The read guard is dropped when persist returns.
Persist_WriteAll(t) ==
    /\ tpc[t] = "p_write"
    /\ \/ seenFile' = SeenOverlay(seenFile, tbytes[t])
       \/ seenFile' = Corrupt
    /\ recorded' = IF seenFile'.kind = "full" THEN seenFile'.data ELSE recorded
    /\ seenLock' = [seenLock EXCEPT ![t] = "none"]
    /\ tpc' = [tpc EXCEPT ![t] = "ret"]
    /\ UNCHANGED <<seen, seenPath, targ, tbytes, tret, trueRet, falseRet,
                   seenInit, nCalls, kills>>
    /\ UNCHANGED exceptSeen

\* storage.rs:69, 76: the call returns.
IsNewAndMark_Return(t) ==
    /\ tpc[t] = "ret"
    /\ tpc' = [tpc EXCEPT ![t] = "idle"]
    /\ IF tret[t]
       THEN /\ trueRet' = [trueRet EXCEPT ![SeenKey(targ[t])] = @ + 1]
            /\ UNCHANGED falseRet
       ELSE /\ falseRet' = [falseRet EXCEPT ![SeenKey(targ[t])] = @ + 1]
            /\ UNCHANGED trueRet
    /\ targ' = [targ EXCEPT ![t] = NoArg]
    /\ tret' = [tret EXCEPT ![t] = FALSE]
    /\ tbytes' = [tbytes EXCEPT ![t] = SeenDefault]
    /\ UNCHANGED <<seen, seenPath, seenFile, seenLock, seenInit, recorded,
                   nCalls, kills>>
    /\ UNCHANGED exceptSeen

\* The process is killed and started again: main.rs:138-141 builds the seen
\* store with SeenStore::load_from, and every task of the old process is
\* gone.  (A store without a path exists only in the tests and is not
\* restarted.)
SeenKill ==
    /\ seenPath
    /\ kills < MaxKills
    /\ kills' = kills + 1
    /\ seen' = SeenLoadFrom(seenFile)
    /\ seenInit' = SeenLoadFrom(seenFile)
    /\ seenLock' = [t \in Tasks |-> "none"]
    /\ tpc' = [t \in Tasks |-> "idle"]
    /\ tbytes' = [t \in Tasks |-> SeenDefault]
    /\ tret' = [t \in Tasks |-> FALSE]
    /\ trueRet' = [k \in SeenKeys |-> 0]
    /\ falseRet' = [k \in SeenKeys |-> 0]
    /\ targ' = [t \in Tasks |-> NoArg]
    /\ UNCHANGED <<seenPath, seenFile, recorded, nCalls>>
    /\ UNCHANGED exceptSeen

\* SeenStore::in_memory (storage.rs:30-35), or load_from on a directory
\* without seen_store.json (storage.rs:44-54).
InitSeenStore ==
    /\ seen = SeenDefault
    /\ seenFile = Missing
    /\ seenTmp = Missing
    /\ seenLock = [t \in Tasks |-> "none"]
    /\ tpc = [t \in Tasks |-> "idle"]
    /\ targ = [t \in Tasks |-> NoArg]
    /\ tbytes = [t \in Tasks |-> SeenDefault]
    /\ tret = [t \in Tasks |-> FALSE]
    /\ trueRet = [k \in SeenKeys |-> 0]
    /\ falseRet = [k \in SeenKeys |-> 0]
    /\ seenInit = SeenDefault
    /\ recorded = SeenDefault
    /\ nCalls = 0
    /\ kills = 0

\* ------------------------------------------------------------------------
\* The feed list (feed.rs:142-189).
\* Vec::retain(|existing| existing.id != id)
RetainOtherIds(list, id) == SelectSeq(list, LAMBDA d : d.id # id)

\* A variant: the descriptor is pushed without the retain.
add_feed_push(list, feed) == Append(list, feed)

\* feed::add_feed (feed.rs:162-166)
add_feed(list, feed) == Append(RetainOtherIds(list, feed.id), feed)

\* feed::remove_feed (feed.rs:175-178)
remove_feed(list, feed_id) == RetainOtherIds(list, feed_id)

\* ------------------------------------------------------------------------
\* ReadData (data.rs:11-15): the same shape as SeenData.
ReadDefault == << >>

\* DataApi::is_read (data.rs:161-169)
is_read(data, e) == SeenContains(data, e.feed_id, identity(e))

\* inner.read.remove(feed_id) (data.rs:152)
ReadRemove(data, feed_id) == [f \in DOMAIN data \ {feed_id} |-> data[f]]

\* ------------------------------------------------------------------------
\* The article cache (data.rs:23) and the merge of upsert_articles.
ArticlesDefault == << >>

\* Option<DateTime<Utc>>::cmp: None is less than every Some.
OptLess(a, b) ==
    IF a = None THEN b # None
    ELSE b # None /\ Unwrap(a) < Unwrap(b)

\* A variant: the comparator with its arguments the other way round:
\* a.published_at.cmp(&b.published_at), an ascending sort
ComesBefore_ascending(a, b) == OptLess(a.published_at, b.published_at)

\* data.rs:197: the comparator |a, b| b.published_at.cmp(&a.published_at)
\* says Less, that is a before b, when b's date is less than a's.
ComesBefore(a, b) == OptLess(b.published_at, a.published_at)

\* slice::sort_by is a stable sort: the result is the one stable order of
\* the elements under the comparator, computed here by stable insertion.
RECURSIVE SortBy(_)
SortBy(s) ==
    IF s = <<>> THEN <<>>
    ELSE LET rest == SortBy(SubSeq(s, 1, Len(s) - 1))
             x == s[Len(s)]
             \* x goes after every element that is not strictly after it
             k == Cardinality({ i \in 1 .. Len(rest) : ~ComesBefore(x, rest[i]) })
         IN SubSeq(rest, 1, k) \o <<x>> \o SubSeq(rest, k + 1, Len(rest))

Identities(s) == { identity(s[i]) : i \in 1 .. Len(s) }

\* A variant: the index of existing identities is not extended while the
\* batch is read: only entries already stored are dropped
PushNew_storedOnly(slot, entries) ==
    LET stored == Identities(slot)
        kept == SelectSeq(entries, LAMBDA e : identity(e) \notin stored)
    IN slot \o kept

\* A variant: an incoming entry takes the place of the stored entry of the
\* same identity.
RECURSIVE PushNew_replace(_, _)
PushNew_replace(slot, entries) ==
    IF entries = <<>> THEN slot
    ELSE PushNew_replace(
            Append(SelectSeq(slot, LAMBDA x :
                                identity(x) # identity(Head(entries))),
                   Head(entries)),
            Tail(entries))

\* data.rs:189-195: existing is the set of identities of the slot; each
\* incoming entry whose identity existing.insert() takes is pushed.
RECURSIVE PushNew(_, _)
PushNew(slot, entries) ==
    IF entries = <<>> THEN slot
    ELSE IF identity(Head(entries)) \in Identities(slot)
         THEN PushNew(slot, Tail(entries))
         ELSE PushNew(Append(slot, Head(entries)), Tail(entries))

\* A variant: the cut keeps the end of the sequence.
Truncate_keepLast(slot) ==
    IF Len(slot) > MAX_PER_FEED
    THEN SubSeq(slot, Len(slot) - MAX_PER_FEED + 1, Len(slot))
    ELSE slot

\* data.rs:198-200
Truncate(slot) ==
    IF Len(slot) > MAX_PER_FEED THEN SubSeq(slot, 1, MAX_PER_FEED) ELSE slot

\* DataApi::upsert_articles on the map (data.rs:186-200):
\* inner.entry(feed_id).or_default(), merge, sort, truncate.
UpsertInto(cache, feed_id, entries) ==
    LET slot == IF feed_id \in DOMAIN cache THEN cache[feed_id] ELSE <<>>
        merged == Truncate(SortBy(PushNew(slot, entries)))
    IN [f \in DOMAIN cache \cup {feed_id} |->
          IF f = feed_id THEN merged ELSE cache[f]]

\* DataApi::list_articles (data.rs:206-209)
list_articles(cache, feed_id) ==
    IF feed_id \in DOMAIN cache THEN cache[feed_id] ELSE <<>>

\* ------------------------------------------------------------------------
\* The three stores of DataApi and their files.
Stores == {"feeds", "read", "articles"}

\* Default::default() of each store's type; all three are empty.
StoreDefault(s) ==
    CASE s = "feeds" -> <<>>
      [] s = "read" -> ReadDefault
      [] s = "articles" -> ArticlesDefault

\* A variant: no temp-file rescue: a primary file that does not parse gives
\* the default
read_json_with_tmp_fallback_primaryOnly(file, tmp, default) ==
    IF file.kind = "full" THEN file.data ELSE default

\* read_json_with_tmp_fallback (data.rs:41-58): the primary file when it
\* parses; when it is read but does not parse, the temp file when that
\* parses; the default otherwise, also when the primary cannot be read.
read_json_with_tmp_fallback(file, tmp, default) ==
    IF file.kind = "missing" THEN default
    ELSE IF file.kind = "full" THEN file.data
    ELSE IF tmp.kind = "full" THEN tmp.data
    ELSE default

\* DataApi::load_from_dir (data.rs:29-82), per store.  The loaded feed list
\* replaces the shared list only when it is not empty (data.rs:62-65);
\* `given` is the list the caller hands in.
LoadFeeds(file, tmp, given) ==
    LET initial_feeds == read_json_with_tmp_fallback(file, tmp, <<>>)
    IN IF initial_feeds # <<>> THEN initial_feeds ELSE given

\* A variant: the read map is not loaded and starts empty.
LoadRead_default(file, tmp) == ReadDefault

LoadRead(file, tmp) == read_json_with_tmp_fallback(file, tmp, ReadDefault)

LoadArticles(file, tmp) == read_json_with_tmp_fallback(file, tmp, ArticlesDefault)

\* main.rs:33 builds the shared feed list empty before load_from_dir.
GivenFeeds == <<>>

LoadStore(s, file, tmp) ==
    CASE s = "feeds" -> LoadFeeds(file, tmp, GivenFeeds)
      [] s = "read" -> LoadRead(file, tmp)
      [] s = "articles" -> LoadArticles(file, tmp)

\* ------------------------------------------------------------------------
\* The DataApi calls of the front end.  app.rs makes each of them with
\* runtime.block_on on the UI thread, one at a time.
NoOp == [name |-> "none"]

\* The start of a persist_* of store s with the serialization `bytes`
\* (data.rs:85-86, 105-106, 124-125).
PersistBegin(s, bytes) ==
    /\ pstore' = s
    /\ pbytes' = bytes
    /\ dpc' = "p_open"

\* DataApi::add_feed (data.rs:142-145): feed::add_feed, then persist_feeds,
\* which serializes list_feeds().
AddFeed_Call(feed) ==
    /\ dpc = "idle"
    /\ dcalls < MaxDataCalls
    /\ dcalls' = dcalls + 1
    /\ fresh' = FALSE
    /\ dop' = [name |-> "add_feed", feed |-> feed]
    /\ feeds' = add_feed(feeds, feed)
    /\ PersistBegin("feeds", feeds')
    /\ UNCHANGED <<read, articles, dfile, dtmp, dold, dkills>>
    /\ UNCHANGED derr
    /\ UNCHANGED exceptData

\* DataApi::remove_feed (data.rs:147-149): feed::remove_feed, then
\* persist_feeds.
RemoveFeed_Call(feed_id) ==
    /\ dpc = "idle"
    /\ dcalls < MaxDataCalls
    /\ dcalls' = dcalls + 1
    /\ fresh' = FALSE
    /\ dop' = [name |-> "remove_feed", feed_id |-> feed_id]
    /\ feeds' = remove_feed(feeds, feed_id)
    /\ PersistBegin("feeds", feeds')
    /\ UNCHANGED <<read, articles, dfile, dtmp, dold, dkills>>
    /\ UNCHANGED derr
    /\ UNCHANGED exceptData

\* A variant: the read marks of the feed are left in the map.
RemoveFeed_Read_keepMarks ==
    /\ dpc = "rm_read"
    /\ read' = read
    /\ PersistBegin("read", read')
    /\ UNCHANGED <<feeds, articles, dfile, dtmp, dop, dold, fresh, dcalls, dkills>>
    /\ UNCHANGED derr
    /\ UNCHANGED exceptData

\* DataApi::remove_feed (data.rs:150-154): the read marks of the feed are
\* removed and persist_read runs.
RemoveFeed_Read ==
    /\ dpc = "rm_read"
    /\ read' = ReadRemove(read, dop.feed_id)
    /\ PersistBegin("read", read')
    /\ UNCHANGED <<feeds, articles, dfile, dtmp, dop, dold, fresh, dcalls, dkills>>
    /\ UNCHANGED derr
    /\ UNCHANGED exceptData

\* A variant: persist_read runs whether or not the identity was new.
MarkRead_Call_alwaysPersist(e) ==
    /\ dpc = "idle"
    /\ dcalls < MaxDataCalls
    /\ dcalls' = dcalls + 1
    /\ fresh' = FALSE
    /\ read' = SeenInsert(read, e.feed_id, identity(e))
    /\ dop' = [name |-> "mark_read", entry |-> e]
    /\ PersistBegin("read", read')
    /\ UNCHANGED <<feeds, articles, dfile, dtmp, dold, dkills>>
    /\ UNCHANGED derr
    /\ UNCHANGED exceptData

\* DataApi::mark_read (data.rs:171-181): persist_read only when the
\* identity was newly inserted.
MarkRead_Call(e) ==
    /\ dpc = "idle"
    /\ dcalls < MaxDataCalls
    /\ dcalls' = dcalls + 1
    /\ fresh' = FALSE
    /\ read' = SeenInsert(read, e.feed_id, identity(e))
    /\ IF is_read(read, e)
       THEN /\ dpc' = "idle"
            /\ dop' = NoOp
            /\ UNCHANGED <<pstore, pbytes>>
       ELSE /\ dop' = [name |-> "mark_read", entry |-> e]
            /\ PersistBegin("read", read')
    /\ UNCHANGED <<feeds, articles, dfile, dtmp, dold, dkills>>
    /\ UNCHANGED derr
    /\ UNCHANGED exceptData

\* DataApi::upsert_articles (data.rs:184-203)
UpsertArticles_Call(feed_id, entries) ==
    /\ dpc = "idle"
    /\ dcalls < MaxDataCalls
    /\ dcalls' = dcalls + 1
    /\ fresh' = FALSE
    /\ dop' = [name |-> "upsert_articles", feed_id |-> feed_id, entries |-> entries]
    /\ articles' = UpsertInto(articles, feed_id, entries)
    /\ PersistBegin("articles", articles')
    /\ UNCHANGED <<feeds, read, dfile, dtmp, dold, dkills>>
    /\ UNCHANGED derr
    /\ UNCHANGED exceptData

\* data.rs:93, 113, 132: tokio::fs::write(&tmp, &bytes) opens the temp file
\* and truncates it.  When the open fails the temp file is as it was; the
\* error is logged and the persist goes on to the rename.
Persist_OpenTmp ==
    /\ dpc = "p_open"
    /\ \/ /\ dtmp' = [dtmp EXCEPT ![pstore] = Corrupt]
          /\ dpc' = "p_write"
          /\ UNCHANGED derr
       \/ /\ dpc' = "p_rename"
          /\ derr' = TRUE
          /\ UNCHANGED dtmp
    /\ UNCHANGED <<feeds, read, articles, dfile, dop, pstore, pbytes, dold,
                   fresh, dcalls, dkills>>
    /\ UNCHANGED exceptData

\* data.rs:93-95, 113-115, 132-134: the bytes are written; a write that
\* fails leaves a part of them, is logged, and the persist goes on.
Persist_WriteTmp ==
    /\ dpc = "p_write"
    /\ \/ /\ dtmp' = [dtmp EXCEPT ![pstore] = Full(pbytes)]
          /\ UNCHANGED derr
       \/ /\ dtmp' = [dtmp EXCEPT ![pstore] = Corrupt]
          /\ derr' = TRUE
    /\ dpc' = "p_rename"
    /\ UNCHANGED <<feeds, read, articles, dfile, dop, pstore, pbytes, dold,
                   fresh, dcalls, dkills>>
    /\ UNCHANGED exceptData

\* What follows a persist: remove_feed goes on to the read store after
\* persist_feeds, every other call returns.
AfterPersist ==
    IF dop.name = "remove_feed" /\ pstore = "feeds" THEN "rm_read" ELSE "idle"

\* A variant: a rename that fails undoes the mutation by loading the store
\* back from its files.
Persist_Rename_rollback ==
    /\ dpc = "p_rename"
    /\ \/ /\ dtmp[pstore].kind # "missing"
          /\ dfile' = [dfile EXCEPT ![pstore] = dtmp[pstore]]
          /\ dtmp' = [dtmp EXCEPT ![pstore] = Missing]
          /\ UNCHANGED <<derr, feeds, read, articles>>
       \/ /\ derr' = TRUE
          /\ feeds' = LoadFeeds(dfile["feeds"], dtmp["feeds"], GivenFeeds)
          /\ read' = LoadRead(dfile["read"], dtmp["read"])
          /\ articles' = LoadArticles(dfile["articles"], dtmp["articles"])
          /\ UNCHANGED <<dfile, dtmp>>
    /\ dold' = [dold EXCEPT ![pstore] =
                  LoadStore(pstore, dfile'[pstore], dtmp'[pstore])]
    /\ dpc' = AfterPersist
    /\ dop' = IF AfterPersist = "idle" THEN NoOp ELSE dop
    /\ pstore' = "none"
    /\ pbytes' = <<>>
    /\ UNCHANGED <<fresh, dcalls, dkills>>
    /\ UNCHANGED exceptData

\* data.rs:96-98, 116-118, 135-137: tokio::fs::rename(&tmp, &path), made
\* whatever the write returned.  It fails when there is no temp file, and
\* may fail otherwise; a failure is logged.
Persist_Rename ==
    /\ dpc = "p_rename"
    /\ \/ /\ dtmp[pstore].kind # "missing"
          /\ dfile' = [dfile EXCEPT ![pstore] = dtmp[pstore]]
          /\ dtmp' = [dtmp EXCEPT ![pstore] = Missing]
          /\ UNCHANGED derr
       \/ /\ derr' = TRUE
          /\ UNCHANGED <<dfile, dtmp>>
    /\ dold' = [dold EXCEPT ![pstore] =
                  LoadStore(pstore, dfile'[pstore], dtmp'[pstore])]
    /\ dpc' = AfterPersist
    /\ dop' = IF AfterPersist = "idle" THEN NoOp ELSE dop
    /\ pstore' = "none"
    /\ pbytes' = <<>>
    /\ UNCHANGED <<feeds, read, articles, fresh, dcalls, dkills>>
    /\ UNCHANGED exceptData

\* The process is killed and started again: main.rs:33 and 143-154 build an
\* empty feed list and DataApi::load_from_dir over the same directory.
DataKill ==
    /\ dkills < MaxDataKills
    /\ dkills' = dkills + 1
    /\ feeds' = LoadFeeds(dfile["feeds"], dtmp["feeds"], GivenFeeds)
    /\ read' = LoadRead(dfile["read"], dtmp["read"])
    /\ articles' = LoadArticles(dfile["articles"], dtmp["articles"])
    /\ dpc' = "idle"
    /\ dop' = NoOp
    /\ pstore' = "none"
    /\ pbytes' = <<>>
    /\ dold' = [s \in Stores |-> LoadStore(s, dfile[s], dtmp[s])]
    /\ fresh' = TRUE
    /\ UNCHANGED <<dfile, dtmp, dcalls>>
    /\ UNCHANGED derr
    /\ UNCHANGED exceptData

\* ------------------------------------------------------------------------
\* One DataApi shared by several tasks (DataApi is Clone and its methods
\* take &self): add_feed, remove_feed and mark_read called concurrently.
\* A step that takes a write lock, mutates and drops the guard has no await
\* in between and is one action; a write of the temp file is one action.

\* data.rs:143 and feed.rs:162-166: the list is changed under its write
\* lock; persist_feeds is next.
AddFeed_Mutate(t, feed) ==
    /\ cpc[t] = "idle"
    /\ ccalls < MaxConcCalls
    /\ ccalls' = ccalls + 1
    /\ cop' = [cop EXCEPT ![t] = [name |-> "add_feed", feed |-> feed]]
    /\ feeds' = add_feed(feeds, feed)
    /\ cpc' = [cpc EXCEPT ![t] = "pf_list"]
    /\ UNCHANGED <<read, dfile, dtmp, cbytes, rlock, cerr>>
    /\ UNCHANGED exceptConc

\* data.rs:148 and feed.rs:175-178
RemoveFeed_Mutate(t, feed_id) ==
    /\ cpc[t] = "idle"
    /\ ccalls < MaxConcCalls
    /\ ccalls' = ccalls + 1
    /\ cop' = [cop EXCEPT ![t] = [name |-> "remove_feed", feed_id |-> feed_id]]
    /\ feeds' = remove_feed(feeds, feed_id)
    /\ cpc' = [cpc EXCEPT ![t] = "pf_list"]
    /\ UNCHANGED <<read, dfile, dtmp, cbytes, rlock, cerr>>
    /\ UNCHANGED exceptConc

\* data.rs:85-86: persist_feeds clones the list under its read lock, drops
\* the guard and serializes the clone.
PersistFeeds_List(t) ==
    /\ cpc[t] = "pf_list"
    /\ cbytes' = [cbytes EXCEPT ![t] = feeds]
    /\ cpc' = [cpc EXCEPT ![t] = "pf_write"]
    /\ UNCHANGED <<feeds, read, dfile, dtmp, cop, rlock, ccalls, cerr>>
    /\ UNCHANGED exceptConc

\* data.rs:172-181: mark_read under the write lock of read_inner; the guard
\* is dropped before persist_read, and a mark already there ends the call.
MarkRead_Mutate(t, e) ==
    /\ cpc[t] = "idle"
    /\ ccalls < MaxConcCalls
    /\ \A u \in Tasks : rlock[u] = "none"
    /\ ccalls' = ccalls + 1
    /\ read' = SeenInsert(read, e.feed_id, identity(e))
    /\ IF is_read(read, e)
       THEN UNCHANGED <<cpc, cop>>
       ELSE /\ cpc' = [cpc EXCEPT ![t] = "pr_lock"]
            /\ cop' = [cop EXCEPT ![t] = [name |-> "mark_read", entry |-> e]]
    /\ UNCHANGED <<feeds, dfile, dtmp, cbytes, rlock, cerr>>
    /\ UNCHANGED exceptConc

\* data.rs:150-153: remove_feed drops the read marks of the feed under the
\* write lock of read_inner.
RemoveFeed_ReadMutate(t) ==
    /\ cpc[t] = "rm_read"
    /\ \A u \in Tasks : rlock[u] = "none"
    /\ read' = ReadRemove(read, cop[t].feed_id)
    /\ cpc' = [cpc EXCEPT ![t] = "pr_lock"]
    /\ UNCHANGED <<feeds, dfile, dtmp, cop, cbytes, rlock, ccalls, cerr>>
    /\ UNCHANGED exceptConc

\* data.rs:105-106: persist_read takes the read lock of read_inner and
\* serializes; the guard lives until persist_read returns.
PersistRead_Lock(t) ==
    /\ cpc[t] = "pr_lock"
    /\ rlock' = [rlock EXCEPT ![t] = "read"]
    /\ cbytes' = [cbytes EXCEPT ![t] = read]
    /\ cpc' = [cpc EXCEPT ![t] = "pr_write"]
    /\ UNCHANGED <<feeds, read, dfile, dtmp, cop, ccalls, cerr>>
    /\ UNCHANGED exceptConc

\* The store a task's persist is writing.
StoreOf(pc) == IF pc \in {"pf_write", "pf_rename"} THEN "feeds" ELSE "read"

\* data.rs:93-95, 113-115: the write of the temp file, whose failure is
\* logged only.
Task_WriteTmp(t) ==
    /\ cpc[t] \in {"pf_write", "pr_write"}
    /\ \/ /\ dtmp' = [dtmp EXCEPT ![StoreOf(cpc[t])] = Full(cbytes[t])]
          /\ UNCHANGED cerr
       \/ /\ dtmp' = [dtmp EXCEPT ![StoreOf(cpc[t])] = Corrupt]
          /\ cerr' = TRUE
       \/ /\ UNCHANGED dtmp
          /\ cerr' = TRUE
    /\ cpc' = [cpc EXCEPT ![t] = IF cpc[t] = "pf_write" THEN "pf_rename"
                                                        ELSE "pr_rename"]
    /\ UNCHANGED <<feeds, read, dfile, cop, cbytes, rlock, ccalls>>
    /\ UNCHANGED exceptConc

\* data.rs:96-98, 116-118: the rename, made whatever the write returned;
\* then remove_feed goes on to the read store and every other call returns.
Task_Rename(t) ==
    /\ cpc[t] \in {"pf_rename", "pr_rename"}
    /\ LET s == StoreOf(cpc[t])
       IN \/ /\ dtmp[s].kind # "missing"
             /\ dfile' = [dfile EXCEPT ![s] = dtmp[s]]
             /\ dtmp' = [dtmp EXCEPT ![s] = Missing]
             /\ UNCHANGED cerr
          \/ /\ cerr' = TRUE
             /\ UNCHANGED <<dfile, dtmp>>
    /\ IF cpc[t] = "pf_rename" /\ cop[t].name = "remove_feed"
       THEN /\ cpc' = [cpc EXCEPT ![t] = "rm_read"]
            /\ UNCHANGED cop
       ELSE /\ cpc' = [cpc EXCEPT ![t] = "idle"]
            /\ cop' = [cop EXCEPT ![t] = NoOp]
    /\ rlock' = [rlock EXCEPT ![t] = "none"]
    /\ cbytes' = [cbytes EXCEPT ![t] = <<>>]
    /\ UNCHANGED <<feeds, read, ccalls>>
    /\ UNCHANGED exceptConc

\* The state DataApi::load_from_dir builds over a directory whose files
\* are `file` and `tmp`.
InitDataOver(file, tmp) ==
    /\ dfile = file
    /\ dtmp = tmp
    /\ feeds = LoadFeeds(file["feeds"], tmp["feeds"], GivenFeeds)
    /\ read = LoadRead(file["read"], tmp["read"])
    /\ articles = LoadArticles(file["articles"], tmp["articles"])
    /\ dpc = "idle"
    /\ dop = NoOp
    /\ pstore = "none"
    /\ pbytes = <<>>
    /\ dold = [s \in Stores |-> LoadStore(s, file[s], tmp[s])]
    /\ fresh = TRUE
    /\ dcalls = 0
    /\ dkills = 0
    /\ derr = FALSE
    /\ cpc = [t \in Tasks |-> "idle"]
    /\ cop = [t \in Tasks |-> NoOp]
    /\ cbytes = [t \in Tasks |-> <<>>]
    /\ rlock = [t \in Tasks |-> "none"]
    /\ ccalls = 0
    /\ cerr = FALSE

\* The first start: the directory holds no file.
InitDataEmpty ==
    InitDataOver([s \in Stores |-> Missing], [s \in Stores |-> Missing])

\* ------------------------------------------------------------------------
\* The documents the feeds' urls serve, and fetch_feed (poller.rs:101-179).

\* A pubDate is a string that DateTime::parse_from_rfc2822 reads, giving a
\* timestamp, or rejects.
GoodDate(ts) == [rfc2822 |-> TRUE, ts |-> ts]

BadDate == [rfc2822 |-> FALSE]

parse_from_rfc2822(value) == IF value.rfc2822 THEN Some(value.ts) ELSE None

\* rss::Item: title, link, guid and pubDate are each optional.
RssItem(title, link, guid, pub_date) ==
    [title |-> title, link |-> link, guid |-> guid, pub_date |-> pub_date]

\* FeedEntry::from_rss_item
from_rss_item(feed_id, item) ==
    FeedEntry(feed_id,
              IF IsSome(item.title) THEN Unwrap(item.title) ELSE "",
              IF IsSome(item.link) THEN Unwrap(item.link) ELSE "",
              IF IsSome(item.pub_date)
              THEN parse_from_rfc2822(Unwrap(item.pub_date)) ELSE None,
              item.guid)

\* atom::Entry: id, title and updated are always there; links may be empty
\* and published absent.
AtomEntry(id, title, links, published, updated) ==
    [id |-> id, title |-> title, links |-> links, published |-> published,
     updated |-> updated]

\* FeedEntry::from_atom_entry
from_atom_entry(feed_id, entry) ==
    FeedEntry(feed_id,
              entry.title,
              IF entry.links = <<>> THEN "" ELSE entry.links[1],
              IF IsSome(entry.published) THEN entry.published
              ELSE Some(entry.updated),
              Some(entry.id))

\* What a response body is: an RSS channel, an Atom feed, or bytes that
\* neither parser reads.
RssDoc(items) == [format |-> "rss", items |-> items]

AtomDoc(entries) == [format |-> "atom", items |-> entries]

BadDoc == [format |-> "other", items |-> <<>>]

\* Bytes that both parsers read: an RSS channel to the one, an Atom feed to
\* the other.
BothDoc(items, entries) ==
    [format |-> "both", items |-> items, entries |-> entries]

\* rss::Channel::read_from (poller.rs:139) and
\* atom_syndication::Feed::read_from (poller.rs:157) over the bytes: the
\* items or entries read, or the parser's own error.
rss_read(doc) ==
    IF doc.format \in {"rss", "both"}
    THEN [ok |-> TRUE, items |-> doc.items]
    ELSE [ok |-> FALSE, err |-> "rss_err"]

atom_read(doc) ==
    IF doc.format = "atom" THEN [ok |-> TRUE, entries |-> doc.items]
    ELSE IF doc.format = "both" THEN [ok |-> TRUE, entries |-> doc.entries]
    ELSE [ok |-> FALSE, err |-> "atom_err"]

\* PollError::Parse (error.rs:8-9) made from the parser error `cause`.
ParseError(cause) == [ok |-> FALSE, err |-> "parse", cause |-> cause]

Ok(entries) == [ok |-> TRUE, entries |-> entries]

Err(kind) == [ok |-> FALSE, err |-> kind]

\* Url::parse over the urls of the model's feeds.
UrlParse(url) ==
    CASE url = "https://a/feed" -> [ok |-> TRUE, scheme |-> "https", host |-> "a"]
      [] url = "https://a/feed2" -> [ok |-> TRUE, scheme |-> "https", host |-> "a"]
      [] url = "https://b/feed" -> [ok |-> TRUE, scheme |-> "https", host |-> "b"]
      [] url = "http://c/feed" -> [ok |-> TRUE, scheme |-> "http", host |-> "c"]
      [] url = "http://localhost/feed" ->
             [ok |-> TRUE, scheme |-> "http", host |-> "localhost"]
      [] url = "http://127.0.0.1/feed" ->
             [ok |-> TRUE, scheme |-> "http", host |-> "127.0.0.1"]
      [] url = "ftp://c/feed" -> [ok |-> TRUE, scheme |-> "ftp", host |-> "c"]
      [] url = "ftp://localhost/feed" ->
             [ok |-> TRUE, scheme |-> "ftp", host |-> "localhost"]
      [] OTHER -> [ok |-> FALSE]

\* poller.rs:111-114: the hosts a url that is not https may name.
host_ok(url) == url.host \in {"localhost", "127.0.0.1", "::1"}

\* A variant: the entry is returned as the conversion made it.
DefaultDate_asConverted(entry, t) == entry

\* poller.rs:146-148 and 164-166: an entry without a date gets Utc::now().
DefaultDate(entry, t) ==
    IF entry.published_at = None
    THEN [entry EXCEPT !.published_at = Some(t)]
    ELSE entry

\* The entries made of the items of a channel and of the entries of an Atom
\* feed read at time t (poller.rs:141-151, 159-169).
RssEntries(feed, items, t) ==
    [i \in 1 .. Len(items) |-> DefaultDate(from_rss_item(feed.id, items[i]), t)]

AtomEntries(feed, entries, t) ==
    [i \in 1 .. Len(entries) |->
        DefaultDate(from_atom_entry(feed.id, entries[i]), t)]

\* A variant: Atom is tried first, and its error is the one returned.
ParseBody_atomFirst(feed, doc, t) ==
    LET atom == atom_read(doc)
    IN IF atom.ok THEN Ok(AtomEntries(feed, atom.entries, t))
       ELSE LET rss == rss_read(doc)
            IN IF rss.ok THEN Ok(RssEntries(feed, rss.items, t))
               ELSE ParseError(atom.err)

\* poller.rs:137-178: the bytes read at time t are parsed as RSS, then as
\* Atom; when both fail the error of the RSS parser is returned.
ParseBody(feed, doc, t) ==
    LET rss == rss_read(doc)
    IN IF rss.ok THEN Ok(RssEntries(feed, rss.items, t))
       ELSE LET atom == atom_read(doc)
            IN IF atom.ok THEN Ok(AtomEntries(feed, atom.entries, t))
               ELSE ParseError(rss.err)

\* fetch_feed over a response that arrived whole and under MAX_FEED_BYTES,
\* read at time t: the url and scheme checks, the RSS parse, the Atom parse.
fetch_feed(feed, doc, t) ==
    LET url == UrlParse(feed.url)
    IN IF ~url.ok THEN Err("invalid_url")
       ELSE IF url.scheme # "https" /\ ~host_ok(url)
            THEN Err("unsupported_scheme")
       ELSE ParseBody(feed, doc, t)

\* ------------------------------------------------------------------------
\* The backoff of fetch_feed_with_retries (poller.rs:195):
\* cfg.retry_backoff_ms * (1u64 << (attempt - 1)).
Word == 2 ^ WordBits

PollConfig(max_retries, retry_backoff_ms) ==
    [max_retries |-> max_retries, retry_backoff_ms |-> retry_backoff_ms]

\* The shift amount reaches the width of the word, or the product leaves it.
BackoffOverflows(cfg, k) ==
    \/ k - 1 >= WordBits
    \/ cfg.retry_backoff_ms * (2 ^ (k - 1)) >= Word

\* What the expression gives where overflow is not checked: the shift
\* amount is masked to the width and the product wraps.
BackoffWrapped(cfg, k) ==
    (cfg.retry_backoff_ms * (2 ^ ((k - 1) % WordBits))) % Word

\* A build that checks overflow panics in the call when the backoff of one
\* of its retries overflows.
CanPanic(cfg, checks) ==
    checks /\ \E k \in 1 .. cfg.max_retries : BackoffOverflows(cfg, k)

\* What fetch_feed_with_retries returns to the poller for a feed at time t:
\* the result of fetch_feed over the document, or the network error of its
\* last attempt.
FetchResults(feed, t) ==
    { fetch_feed(feed, docs[feed.id], t), Err("network") }

\* ------------------------------------------------------------------------
\* The filter of poll_once and of the poller's cycle (poller.rs:72-77 and
\* 259-264): is_new_and_mark on each fetched entry in turn.

\* A store that answers and records nothing.
is_new_and_mark_forgetful(data, e) ==
    [isNew |-> ~SeenContains(data, e.feed_id, identity(e)), data |-> data]

\* SeenStore::is_new_and_mark as one step of an in-memory store
\* (storage.rs:63-78; SpecSeen has its steps).
is_new_and_mark(data, e) ==
    [isNew |-> ~SeenContains(data, e.feed_id, identity(e)),
     data |-> SeenInsert(data, e.feed_id, identity(e))]

RECURSIVE FilterNew(_, _)
FilterNew(data, entries) ==
    IF entries = <<>> THEN [data |-> data, new_entries |-> <<>>]
    ELSE LET m == is_new_and_mark(data, Head(entries))
             rest == FilterNew(m.data, Tail(entries))
         IN [data |-> rest.data,
             new_entries |-> IF m.isNew
                             THEN <<Head(entries)>> \o rest.new_entries
                             ELSE rest.new_entries]

\* Event::NewArticles
NewArticles(feed_id, entries) == [feed_id |-> feed_id, entries |-> entries]

\* poll_once (poller.rs:249-276) as one step: the events and the seen set
\* that a pass over `feed_list` gives from the seen set `data` and the
\* fetch results `results`, feed by feed: a failed fetch gives nothing, a
\* fetch that succeeded marks its entries and gives one event with those
\* not seen before, when there are any.
RECURSIVE PassOutcome(_, _, _)
PassOutcome(feed_list, results, data) ==
    IF feed_list = <<>> \/ results = <<>>
    THEN [events |-> <<>>, data |-> data]
    ELSE LET r == Head(results)
             m == IF r.ok THEN FilterNew(data, r.entries)
                  ELSE [data |-> data, new_entries |-> <<>>]
             rest == PassOutcome(Tail(feed_list), Tail(results), m.data)
         IN [events |->
                (IF m.new_entries # <<>>
                 THEN <<NewArticles(Head(feed_list).id, m.new_entries)>>
                 ELSE <<>>) \o rest.events,
             data |-> rest.data]

\* The fetch results a pass over `feed_list` can get at time t.
PollResults(feed_list, t) ==
    { rs \in [1 .. Len(feed_list) ->
                UNION { FetchResults(feed_list[k], t) :
                          k \in 1 .. Len(feed_list) }] :
        \A k \in 1 .. Len(feed_list) : rs[k] \in FetchResults(feed_list[k], t) }

\* History of one pass over the feed list: the list and the seen set it
\* started from, the fetch results it got, the events it built.
Pass(feed_list, seen0) ==
    [feeds |-> feed_list, seen0 |-> seen0, results |-> <<>>,
     events |-> <<>>, done |-> FALSE]

NoPass == Pass(<<>>, <<>>)

Fetched(pass, r, m, feed_id) ==
    [pass EXCEPT !.results = Append(@, r),
                 !.events = IF m.new_entries # <<>>
                            THEN Append(@, NewArticles(feed_id, m.new_entries))
                            ELSE @]

\* Time passes.
ClockTick ==
    /\ now < MaxClock
    /\ now' = now + 1
    /\ UNCHANGED <<seenVars, dataVars, docs, rcfg, overflow_checks, onceVars,
                   pollerVars, retryVars, concVars, fetchVars,
                   identVars, lockVars, raceVars, appVars, cyc>>

\* ------------------------------------------------------------------------
\* poll_once (poller.rs:249-276) over the shared feed list and an in-memory
\* seen store, one step per feed.

\* poller.rs:255-256: out is empty and the loop starts over `feeds`.
PollOnce_Call ==
    /\ opc = "idle"
    /\ Len(oret) < MaxPollCalls
    /\ opc' = "feeds"
    /\ osnap' = feeds
    /\ oout' = <<>>
    /\ ofailed' = Append(ofailed, {})
    /\ UNCHANGED <<oret, seen, seenFile, now>>
    /\ cyc' = [cyc EXCEPT !.once = Pass(feeds, seen)]
    /\ UNCHANGED exceptOnce

\* A variant: the event is pushed whether or not an entry is new.
PollOnce_FetchOk_always ==
    /\ opc = "feeds"
    /\ osnap # <<>>
    /\ \E r \in FetchResults(Head(osnap), now) :
          /\ r.ok
          /\ LET m == FilterNew(seen, r.entries)
             IN /\ seen' = m.data
                /\ cyc' = [cyc EXCEPT
                      !.once = Fetched(@, r, m, Head(osnap).id)]
                /\ oout' = Append(oout, NewArticles(Head(osnap).id,
                                                    m.new_entries))
    /\ osnap' = Tail(osnap)
    /\ UNCHANGED <<opc, oret, ofailed, seenFile, now>>
    /\ UNCHANGED exceptOnce

\* poller.rs:257-269: the fetch succeeded; the entries not yet seen are
\* marked and, when there are any, pushed as one NewArticles event.
PollOnce_FetchOk ==
    /\ opc = "feeds"
    /\ osnap # <<>>
    /\ \E r \in FetchResults(Head(osnap), now) :
          /\ r.ok
          /\ LET m == FilterNew(seen, r.entries)
             IN /\ seen' = m.data
                /\ cyc' = [cyc EXCEPT
                      !.once = Fetched(@, r, m, Head(osnap).id)]
                /\ oout' = IF m.new_entries # <<>>
                           THEN Append(oout, NewArticles(Head(osnap).id,
                                                         m.new_entries))
                           ELSE oout
    /\ osnap' = Tail(osnap)
    /\ UNCHANGED <<opc, oret, ofailed, seenFile, now>>
    /\ UNCHANGED exceptOnce

\* poller.rs:270-272: the fetch failed after its retries; the feed is
\* skipped.
PollOnce_FetchErr ==
    /\ opc = "feeds"
    /\ osnap # <<>>
    /\ \E r \in FetchResults(Head(osnap), now) :
          /\ ~r.ok
          /\ cyc' = [cyc EXCEPT !.once.results = Append(@, r)]
    /\ osnap' = Tail(osnap)
    /\ ofailed' = [ofailed EXCEPT ![Len(ofailed)] = @ \cup {Head(osnap).id}]
    /\ UNCHANGED <<opc, oout, oret, seen, seenFile, now>>
    /\ UNCHANGED exceptOnce

\* poller.rs:195 inside the call of line 257: the backoff overflows in a
\* build that checks overflow, and the panic unwinds through poll_once.
PollOnce_FetchPanic ==
    /\ opc = "feeds"
    /\ osnap # <<>>
    /\ CanPanic(rcfg, overflow_checks)
    /\ opc' = "panicked"
    /\ UNCHANGED <<osnap, oout, oret, ofailed, seen, seenFile, now>>
    /\ UNCHANGED cyc
    /\ UNCHANGED exceptOnce

\* poller.rs:275: out is returned.
PollOnce_Return ==
    /\ opc = "feeds"
    /\ osnap = <<>>
    /\ oret' = Append(oret, oout)
    /\ oout' = <<>>
    /\ opc' = "idle"
    /\ UNCHANGED <<osnap, ofailed, seen, seenFile, now>>
    /\ cyc' = [cyc EXCEPT !.once.done = TRUE]
    /\ UNCHANGED exceptOnce

\* ------------------------------------------------------------------------
\* The scheduled poller (spawn_poller, poller.rs:50-99), PollerHandle::stop
\* (poller.rs:43-48) and the receiving end of the event channel.

NoEvent == NewArticles("", <<>>)

\* A variant: the cancel is seen at every await of the loop.
Poller_Cancel_anywhere ==
    /\ qpc \in {"select", "cycle", "send"}
    /\ cancelSent
    /\ qpc' = "exited"
    /\ UNCHANGED <<qsnap, qevt, qcycles, chan, rxDropped, cancelSent,
                   stopState, stopAt, seen, seenFile, now>>
    /\ UNCHANGED <<qfailed, qdone, qdropped>>
    /\ UNCHANGED cyc
    /\ UNCHANGED exceptPoller

\* The (feed_id, identity) pairs of a list of entries.
Pairs(entries) ==
    { <<entries[k].feed_id, identity(entries[k])>> : k \in 1 .. Len(entries) }

\* poller.rs:64-67: the select takes the cancel branch and the task ends.
Poller_Cancel ==
    /\ qpc = "select"
    /\ cancelSent
    /\ qpc' = "exited"
    /\ UNCHANGED <<qsnap, qevt, qcycles, chan, rxDropped, cancelSent,
                   stopState, stopAt, seen, seenFile, now>>
    /\ UNCHANGED <<qfailed, qdone, qdropped>>
    /\ UNCHANGED cyc
    /\ UNCHANGED exceptPoller

\* poller.rs:68-69: the select takes the tick branch and the task clones
\* the feed list.
Poller_Tick ==
    /\ qpc = "select"
    /\ qcycles < MaxCycles
    /\ qcycles' = qcycles + 1
    /\ qsnap' = feeds
    /\ qpc' = "cycle"
    /\ UNCHANGED <<qevt, chan, rxDropped, cancelSent, stopState, stopAt,
                   seen, seenFile, now>>
    /\ qfailed' = {}
    /\ qdone' = {}
    /\ UNCHANGED qdropped
    /\ cyc' = [cyc EXCEPT !.poller = Pass(feeds, seen)]
    /\ UNCHANGED exceptPoller

\* poller.rs:70-79 and 87: the fetch succeeded; the entries not yet seen
\* are marked and, when there are any, the task goes on to send the event.
Poller_FetchOk ==
    /\ qpc = "cycle"
    /\ qsnap # <<>>
    /\ \E r \in FetchResults(Head(qsnap), now) :
          /\ r.ok
          /\ LET m == FilterNew(seen, r.entries)
             IN /\ seen' = m.data
                /\ cyc' = [cyc EXCEPT
                      !.poller = Fetched(@, r, m, Head(qsnap).id)]
                /\ IF m.new_entries # <<>>
                   THEN /\ qevt' = NewArticles(Head(qsnap).id, m.new_entries)
                        /\ qpc' = "send"
                   ELSE UNCHANGED <<qevt, qpc>>
    /\ qsnap' = Tail(qsnap)
    /\ UNCHANGED <<qcycles, chan, rxDropped, cancelSent, stopState, stopAt,
                   seenFile, now>>
    /\ qdone' = qdone \cup {Head(qsnap).id}
    /\ UNCHANGED qdropped
    /\ UNCHANGED qfailed
    /\ UNCHANGED exceptPoller

\* A variant: the error is propagated with `?` and ends the task.
Poller_FetchErr_propagate ==
    /\ qpc = "cycle"
    /\ qsnap # <<>>
    /\ \E r \in FetchResults(Head(qsnap), now) : ~r.ok
    /\ qsnap' = Tail(qsnap)
    /\ qpc' = "exited"
    /\ UNCHANGED <<qevt, qcycles, chan, rxDropped, cancelSent,
                   stopState, stopAt, seen, seenFile, now>>
    /\ qfailed' = qfailed \cup {Head(qsnap).id}
    /\ UNCHANGED <<qdone, qdropped>>
    /\ UNCHANGED cyc
    /\ UNCHANGED exceptPoller

\* poller.rs:88-90
Poller_FetchErr ==
    /\ qpc = "cycle"
    /\ qsnap # <<>>
    /\ \E r \in FetchResults(Head(qsnap), now) :
          /\ ~r.ok
          /\ cyc' = [cyc EXCEPT !.poller.results = Append(@, r)]
    /\ qsnap' = Tail(qsnap)
    /\ UNCHANGED <<qpc, qevt, qcycles, chan, rxDropped, cancelSent,
                   stopState, stopAt, seen, seenFile, now>>
    /\ qfailed' = qfailed \cup {Head(qsnap).id}
    /\ UNCHANGED <<qdone, qdropped>>
    /\ UNCHANGED exceptPoller

\* poller.rs:195 inside the call of line 71: the panic ends the task.
Poller_FetchPanic ==
    /\ qpc = "cycle"
    /\ qsnap # <<>>
    /\ CanPanic(rcfg, overflow_checks)
    /\ qpc' = "panicked"
    /\ UNCHANGED <<qsnap, qevt, qcycles, chan, rxDropped, cancelSent,
                   stopState, stopAt, seen, seenFile, now>>
    /\ UNCHANGED <<qfailed, qdone, qdropped>>
    /\ UNCHANGED cyc
    /\ UNCHANGED exceptPoller

\* poller.rs:82: update_tx.send(evt).await completes when the channel has
\* room; while it is full and the receiver lives, the task waits here.
Poller_Send ==
    /\ qpc = "send"
    /\ ~rxDropped
    /\ Len(chan) < ChanCap
    /\ chan' = Append(chan, qevt)
    /\ qevt' = NoEvent
    /\ qpc' = "cycle"
    /\ UNCHANGED <<qsnap, qcycles, rxDropped, cancelSent, stopState, stopAt,
                   seen, seenFile, now>>
    /\ UNCHANGED <<qfailed, qdone, qdropped>>
    /\ UNCHANGED cyc
    /\ UNCHANGED exceptPoller

\* A variant: a closed channel ends the task.
Poller_SendClosed_exit ==
    /\ qpc = "send"
    /\ rxDropped
    /\ qevt' = NoEvent
    /\ qpc' = "exited"
    /\ UNCHANGED <<qsnap, qcycles, chan, rxDropped, cancelSent, stopState,
                   stopAt, seen, seenFile, now>>
    /\ UNCHANGED <<qfailed, qdone, qdropped>>
    /\ UNCHANGED cyc
    /\ UNCHANGED exceptPoller

\* poller.rs:82-84: the receiver is gone, send returns an error, the task
\* warns and goes on.
Poller_SendClosed ==
    /\ qpc = "send"
    /\ rxDropped
    /\ qevt' = NoEvent
    /\ qpc' = "cycle"
    /\ UNCHANGED <<qsnap, qcycles, chan, rxDropped, cancelSent, stopState,
                   stopAt, seen, seenFile, now>>
    /\ qdropped' = qdropped \cup Pairs(qevt.entries)
    /\ UNCHANGED <<qfailed, qdone>>
    /\ UNCHANGED cyc
    /\ UNCHANGED exceptPoller

\* poller.rs:70 and 62: the loop over the snapshot ends, back to the select.
Poller_CycleEnd ==
    /\ qpc = "cycle"
    /\ qsnap = <<>>
    /\ qpc' = "select"
    /\ UNCHANGED <<qsnap, qevt, qcycles, chan, rxDropped, cancelSent,
                   stopState, stopAt, seen, seenFile, now>>
    /\ UNCHANGED <<qfailed, qdone, qdropped>>
    /\ cyc' = [cyc EXCEPT !.poller.done = TRUE]
    /\ UNCHANGED exceptPoller

\* app.rs:488: the front end takes one event with try_recv.  It does so
\* from its update loop, which the thread leaves when it calls stop.
Gui_TryRecv ==
    /\ stopState = "none"
    /\ ~rxDropped
    /\ chan # <<>>
    /\ chan' = Tail(chan)
    /\ UNCHANGED <<qpc, qsnap, qevt, qcycles, rxDropped, cancelSent,
                   stopState, stopAt, seen, seenFile, now>>
    /\ UNCHANGED <<qfailed, qdone, qdropped>>
    /\ UNCHANGED cyc
    /\ UNCHANGED exceptPoller

\* The owner of the Receiver drops it, and the events it held.
Rx_Drop ==
    /\ stopState = "none"
    /\ ~rxDropped
    /\ rxDropped' = TRUE
    /\ chan' = <<>>
    /\ UNCHANGED <<qpc, qsnap, qevt, qcycles, cancelSent, stopState, stopAt,
                   seen, seenFile, now>>
    /\ UNCHANGED <<qfailed, qdone, qdropped>>
    /\ UNCHANGED cyc
    /\ UNCHANGED exceptPoller

\* poller.rs:45: cancel_tx.send(()), its result ignored.
Stop_Call ==
    /\ stopState = "none"
    /\ cancelSent' = TRUE
    /\ stopState' = "joining"
    /\ stopAt' = qpc
    /\ UNCHANGED <<qpc, qsnap, qevt, qcycles, chan, rxDropped, seen,
                   seenFile, now>>
    /\ UNCHANGED <<qfailed, qdone, qdropped>>
    /\ UNCHANGED cyc
    /\ UNCHANGED exceptPoller

\* A stop that does not wait for the task.
Stop_Return_detached ==
    /\ stopState = "joining"
    /\ stopState' = "returned"
    /\ UNCHANGED <<qpc, qsnap, qevt, qcycles, chan, rxDropped, cancelSent,
                   stopAt, seen, seenFile, now>>
    /\ UNCHANGED <<qfailed, qdone, qdropped>>
    /\ UNCHANGED cyc
    /\ UNCHANGED exceptPoller

\* poller.rs:46: self.join.await completes when the task has ended, by
\* leaving its loop or by a panic.
Stop_Return ==
    /\ stopState = "joining"
    /\ qpc \in {"exited", "panicked"}
    /\ stopState' = "returned"
    /\ UNCHANGED <<qpc, qsnap, qevt, qcycles, chan, rxDropped, cancelSent,
                   stopAt, seen, seenFile, now>>
    /\ UNCHANGED <<qfailed, qdone, qdropped>>
    /\ UNCHANGED cyc
    /\ UNCHANGED exceptPoller

\* ------------------------------------------------------------------------
\* fetch_feed_with_retries (poller.rs:181-201), one step per fetch_feed
\* call and per sleep.

\* The kinds of PollError a fetch_feed call returns.
ErrKinds == {"network", "parse", "too_large", "unsupported_scheme", "invalid_url"}

NoResult == [ok |-> FALSE, err |-> "none"]

\* poller.rs:188-189: fetch_feed succeeded; its entries (named here by the
\* number of the call that got them) are returned.
Retry_FetchOk ==
    /\ rpc = "fetch"
    /\ rfetches' = rfetches + 1
    /\ rlast' = Ok(rfetches + 1)
    /\ rresult' = Ok(rfetches + 1)
    /\ rpc' = "returned"
    /\ UNCHANGED <<attempt, rfails, rsleeps>>
    /\ UNCHANGED exceptRetry

\* poller.rs:190-198: fetch_feed failed; attempt is counted, and the error
\* is returned or the backoff is computed and slept.
Retry_FetchErr(kind) ==
    /\ rpc = "fetch"
    /\ rfetches' = rfetches + 1
    /\ rfails' = rfails + 1
    /\ rlast' = Err(kind)
    /\ attempt' = attempt + 1
    /\ IF attempt + 1 > rcfg.max_retries
       THEN /\ rresult' = Err(kind)
            /\ rpc' = "returned"
            /\ UNCHANGED rsleeps
       ELSE IF overflow_checks /\ BackoffOverflows(rcfg, attempt + 1)
       THEN /\ rpc' = "panicked"
            /\ UNCHANGED <<rresult, rsleeps>>
       ELSE /\ rsleeps' = Append(rsleeps, BackoffWrapped(rcfg, attempt + 1))
            /\ rpc' = "sleep"
            /\ UNCHANGED rresult
    /\ UNCHANGED exceptRetry

\* poller.rs:197: the sleep ends and the loop calls fetch_feed again.
Retry_Wake ==
    /\ rpc = "sleep"
    /\ rpc' = "fetch"
    /\ UNCHANGED <<attempt, rfetches, rfails, rsleeps, rlast, rresult>>
    /\ UNCHANGED exceptRetry

\* ------------------------------------------------------------------------
\* One call of fetch_feed (poller.rs:101-179), step by step: the checks of
\* the url, the request, the declared length, the chunks, the parse.

TooLarge(len) == [ok |-> FALSE, err |-> "too_large", len |-> len]

\* The feed of the call.
FetchFeed == FeedDescriptor("f1", "A", feed_url)

\* poller.rs:107-118: Url::parse, then the scheme check of a build that is
\* not a test build.
Fetch_CheckUrl ==
    /\ fetch_pc = "start"
    /\ LET url == UrlParse(feed_url)
       IN IF ~url.ok
          THEN /\ fetch_result' = Err("invalid_url")
               /\ fetch_pc' = "returned"
          ELSE IF url.scheme # "https" /\ ~host_ok(url)
          THEN /\ fetch_result' = Err("unsupported_scheme")
               /\ fetch_pc' = "returned"
          ELSE /\ fetch_pc' = "send"
               /\ UNCHANGED fetch_result
    /\ UNCHANGED <<feed_url, sent, content_length, stream, bytes_buf,
                   chunks_read>>
    /\ UNCHANGED exceptFetch

\* poller.rs:121: client.get(url).timeout(timeout).send().await?  The
\* request fails, or a response arrives with or without a Content-Length and
\* a body in chunks; the client answers no scheme but http and https.
Fetch_Send ==
    /\ fetch_pc = "send"
    /\ sent' = TRUE
    /\ \/ /\ fetch_result' = Err("network")
          /\ fetch_pc' = "returned"
          /\ UNCHANGED <<content_length, stream>>
       \/ /\ UrlParse(feed_url).scheme \in {"http", "https"}
          /\ content_length' \in
                {None} \cup { Some(n) : n \in 0 .. MAX_FEED_BYTES + 1 }
          /\ stream' \in SeqsUpTo(1 .. MaxChunkLen, MaxChunks)
          /\ fetch_pc' = "length"
          /\ UNCHANGED fetch_result
    /\ UNCHANGED <<feed_url, bytes_buf, chunks_read>>
    /\ UNCHANGED exceptFetch

\* poller.rs:122-126
Fetch_CheckLength ==
    /\ fetch_pc = "length"
    /\ IF IsSome(content_length) /\ Unwrap(content_length) > MAX_FEED_BYTES
       THEN /\ fetch_result' = TooLarge(Unwrap(content_length))
            /\ fetch_pc' = "returned"
       ELSE /\ fetch_pc' = "stream"
            /\ UNCHANGED fetch_result
    /\ UNCHANGED <<feed_url, sent, content_length, stream, bytes_buf,
                   chunks_read>>
    /\ UNCHANGED exceptFetch

\* A variant: a chunk that fills the buffer to the cap is refused.
Fetch_NextChunk_strict ==
    /\ fetch_pc = "stream"
    /\ stream # <<>>
    /\ chunks_read' = chunks_read + 1
    /\ stream' = Tail(stream)
    /\ \/ /\ fetch_result' = Err("network")
          /\ fetch_pc' = "returned"
          /\ UNCHANGED bytes_buf
       \/ IF bytes_buf + Head(stream) >= MAX_FEED_BYTES
          THEN /\ fetch_result' = TooLarge(bytes_buf + Head(stream))
               /\ fetch_pc' = "returned"
               /\ UNCHANGED bytes_buf
          ELSE /\ bytes_buf' = bytes_buf + Head(stream)
               /\ UNCHANGED <<fetch_pc, fetch_result>>
    /\ UNCHANGED <<feed_url, sent, content_length>>
    /\ UNCHANGED exceptFetch

\* poller.rs:129-135: the stream gives a chunk or an error; a chunk that
\* would take the buffer over the cap ends the call, any other is appended.
Fetch_NextChunk ==
    /\ fetch_pc = "stream"
    /\ stream # <<>>
    /\ chunks_read' = chunks_read + 1
    /\ stream' = Tail(stream)
    /\ \/ /\ fetch_result' = Err("network")
          /\ fetch_pc' = "returned"
          /\ UNCHANGED bytes_buf
       \/ IF bytes_buf + Head(stream) > MAX_FEED_BYTES
          THEN /\ fetch_result' = TooLarge(bytes_buf + Head(stream))
               /\ fetch_pc' = "returned"
               /\ UNCHANGED bytes_buf
          ELSE /\ bytes_buf' = bytes_buf + Head(stream)
               /\ UNCHANGED <<fetch_pc, fetch_result>>
    /\ UNCHANGED <<feed_url, sent, content_length>>
    /\ UNCHANGED exceptFetch

\* poller.rs:129 and 136-178: the stream has ended; the bytes are parsed.
Fetch_Parse ==
    /\ fetch_pc = "stream"
    /\ stream = <<>>
    /\ fetch_result' = ParseBody(FetchFeed, docs["f1"], now)
    /\ fetch_pc' = "returned"
    /\ UNCHANGED <<feed_url, sent, content_length, stream, bytes_buf,
                   chunks_read>>
    /\ UNCHANGED exceptFetch

\* ------------------------------------------------------------------------
\* The scheduled poller and poll_once calls on one SeenStore (main.rs:42-54
\* hands the poller and the front end clones of one store): the loop of
\* poller.rs:70-92 and 256-274 with one step per fetch and one per call of
\* is_new_and_mark, so that the runners interleave between two entries.
Runners == {"poller", "once"}

\* The occurrences of the entries of an event, added to the history.
RECURSIVE Emit(_, _, _)
Emit(hist, t, entries) ==
    IF entries = <<>> THEN hist
    ELSE LET p == <<Head(entries).feed_id, identity(Head(entries))>>
             h == [q \in DOMAIN hist \cup {p} |->
                     IF q = p
                     THEN (IF q \in DOMAIN hist THEN hist[q] ELSE <<>>) \o <<t>>
                     ELSE hist[q]]
         IN Emit(h, t, Tail(entries))

\* poller.rs:68-69 or 249-256: a pass starts over the feed list.
Race_Start(t) ==
    /\ race_pc[t] = "idle"
    /\ race_passes[t] < MaxRacePasses
    /\ race_passes' = [race_passes EXCEPT ![t] = @ + 1]
    /\ race_snap' = [race_snap EXCEPT ![t] = feeds]
    /\ race_pc' = [race_pc EXCEPT ![t] = "feeds"]
    /\ UNCHANGED <<race_feed, race_entries, race_new, emitted, seen, seenFile>>
    /\ UNCHANGED exceptRace

\* poller.rs:71-73 or 257-259: the next feed is fetched; entries that came
\* start the filter loop, an empty list or an error goes on to the next
\* feed.
Race_Fetch(t) ==
    /\ race_pc[t] = "feeds"
    /\ race_snap[t] # <<>>
    /\ \E r \in FetchResults(Head(race_snap[t]), now) :
          IF r.ok /\ r.entries # <<>>
          THEN /\ race_entries' = [race_entries EXCEPT ![t] = r.entries]
               /\ race_new' = [race_new EXCEPT ![t] = <<>>]
               /\ race_feed' = [race_feed EXCEPT ![t] = Head(race_snap[t]).id]
               /\ race_pc' = [race_pc EXCEPT ![t] = "entries"]
          ELSE UNCHANGED <<race_entries, race_new, race_feed, race_pc>>
    /\ race_snap' = [race_snap EXCEPT ![t] = Tail(@)]
    /\ UNCHANGED <<race_passes, emitted, seen, seenFile>>
    /\ UNCHANGED exceptRace

\* A variant: every fetched entry is kept.
Race_Mark_keepAll(t) ==
    /\ race_pc[t] = "entries"
    /\ race_entries[t] # <<>>
    /\ seen' = is_new_and_mark(seen, Head(race_entries[t])).data
    /\ race_new' = [race_new EXCEPT ![t] = Append(@, Head(race_entries[t]))]
    /\ race_entries' = [race_entries EXCEPT ![t] = Tail(@)]
    /\ UNCHANGED <<race_pc, race_snap, race_feed, race_passes, emitted,
                   seenFile>>
    /\ UNCHANGED exceptRace

\* poller.rs:75-78 or 261-264: is_new_and_mark on the next entry, which is
\* pushed to new_entries when the store says it is new.
Race_Mark(t) ==
    /\ race_pc[t] = "entries"
    /\ race_entries[t] # <<>>
    /\ LET m == is_new_and_mark(seen, Head(race_entries[t]))
       IN /\ seen' = m.data
          /\ race_new' = [race_new EXCEPT
                ![t] = IF m.isNew THEN Append(@, Head(race_entries[t])) ELSE @]
    /\ race_entries' = [race_entries EXCEPT ![t] = Tail(@)]
    /\ UNCHANGED <<race_pc, race_snap, race_feed, race_passes, emitted,
                   seenFile>>
    /\ UNCHANGED exceptRace

\* poller.rs:80-82 or 266-268: the filter loop is over; new_entries, when
\* not empty, makes one NewArticles event.
Race_Emit(t) ==
    /\ race_pc[t] = "entries"
    /\ race_entries[t] = <<>>
    /\ emitted' = Emit(emitted, t, race_new[t])
    /\ race_new' = [race_new EXCEPT ![t] = <<>>]
    /\ race_pc' = [race_pc EXCEPT ![t] = "feeds"]
    /\ UNCHANGED <<race_snap, race_feed, race_entries, race_passes, seen,
                   seenFile>>
    /\ UNCHANGED exceptRace

\* poller.rs:93 or 275: the loop over the feeds is over.
Race_End(t) ==
    /\ race_pc[t] = "feeds"
    /\ race_snap[t] = <<>>
    /\ race_pc' = [race_pc EXCEPT ![t] = "idle"]
    /\ UNCHANGED <<race_snap, race_feed, race_entries, race_new, race_passes,
                   emitted, seen, seenFile>>
    /\ UNCHANGED exceptRace

\* ------------------------------------------------------------------------
\* The front end (rss-gui/src/app.rs).  Its handlers run on the UI thread
\* and wait for each call with block_on, so each is one step; the list of
\* articles on display (self.articles) is left out.

\* The pairs of the entries of a sequence of events.
EventPairs(events) ==
    UNION { Pairs(events[k].entries) : k \in 1 .. Len(events) }

\* upsert_articles(&feed_id, to_persist) for each event in turn, on the
\* cache in memory (persist_articles has its steps in SpecData).
RECURSIVE UpsertEvents(_, _)
UpsertEvents(cache, events) ==
    IF events = <<>> THEN cache
    ELSE UpsertEvents(UpsertInto(cache, Head(events).feed_id,
                                 Head(events).entries),
                      Tail(events))

\* What a one-shot poll fetched and what it reported as new, as pairs.
NoPoll == [fetched |-> {}, reported |-> {}]

Polled(results, events) ==
    [fetched |-> UNION { IF results[k].ok THEN Pairs(results[k].entries)
                         ELSE {} : k \in 1 .. Len(results) },
     reported |-> EventPairs(events)]

\* A variant of the start that hands each event to upsert_articles.
App_New_upsert ==
    /\ app_pc = "new"
    /\ app_pc' = "running"
    /\ IF feeds # <<>>
       THEN \E rs \in PollResults(feeds, now) :
              LET out == PassOutcome(feeds, rs, seen)
              IN /\ seen' = out.data
                 /\ app_obtained' = app_obtained \cup EventPairs(out.events)
                 /\ app_upserted' = app_upserted \cup EventPairs(out.events)
                 /\ articles' = UpsertEvents(articles, out.events)
       ELSE UNCHANGED <<seen, app_obtained, app_upserted, articles>>
    /\ UNCHANGED <<app_polls, app_last, app_removed, chan, feeds, read>>
    /\ UNCHANGED exceptApp

\* app.rs:280-298, RssApp::new: the articles of the cache are listed and,
\* when there are feeds, polled once; the entries of the events go to the
\* list on display.
App_New ==
    /\ app_pc = "new"
    /\ app_pc' = "running"
    /\ IF feeds # <<>>
       THEN \E rs \in PollResults(feeds, now) :
              LET out == PassOutcome(feeds, rs, seen)
              IN /\ seen' = out.data
                 /\ app_obtained' = app_obtained \cup EventPairs(out.events)
       ELSE UNCHANGED <<seen, app_obtained>>
    /\ UNCHANGED <<app_polls, app_upserted, app_last, app_removed, articles,
                   chan>>
    /\ UNCHANGED <<feeds, read>>
    /\ UNCHANGED exceptApp

\* A one-shot poll of `feed_list` whose events are each handed to
\* upsert_articles: the whole list on "refresh all" (app.rs:773-790), one
\* feed on add (626-649), follow (555-571), selection of a feed without
\* cached articles (852-876) and "refresh this feed" (913-935).
App_PollOnce(feed_list) ==
    /\ app_pc = "running"
    /\ app_polls < MaxAppPolls
    /\ app_polls' = app_polls + 1
    /\ \E rs \in PollResults(feed_list, now) :
          LET out == PassOutcome(feed_list, rs, seen)
          IN /\ seen' = out.data
             /\ app_obtained' = app_obtained \cup EventPairs(out.events)
             /\ app_upserted' = app_upserted \cup EventPairs(out.events)
             /\ articles' = UpsertEvents(articles, out.events)
             /\ app_last' = Polled(rs, out.events)
    /\ UNCHANGED <<app_pc, app_removed, chan, read>>
    /\ UNCHANGED exceptApp

\* The descriptors the add form can build.  The id is the title and the
\* clock in milliseconds (app.rs:615), so the same id can be built again.
AppFeedArgs ==
    { FeedDescriptor("f1", "A", "https://a/feed"),
      FeedDescriptor("f2", "B", "https://b/feed") }

\* app.rs:594-649, add_feed_from_input: add_feed, then a one-shot poll of
\* the new descriptor alone whose events are handed to upsert_articles.
App_AddFeed ==
    \E feed \in AppFeedArgs :
        /\ feeds' = add_feed(feeds, feed)
        /\ App_PollOnce(<<feed>>)

\* The pairs the seen set holds for a feed.
SeenPairsOf(data, feed_id) ==
    IF feed_id \in DOMAIN data
    THEN { <<feed_id, key>> : key \in data[feed_id] }
    ELSE {}

\* A variant of the removal that also purges the cache and the seen set.
App_RemoveFeed_purge ==
    /\ app_pc = "running"
    /\ \E k \in 1 .. Len(feeds) :
          /\ feeds' = remove_feed(feeds, feeds[k].id)
          /\ read' = ReadRemove(read, feeds[k].id)
          /\ articles' = ReadRemove(articles, feeds[k].id)
          /\ seen' = ReadRemove(seen, feeds[k].id)
          /\ app_removed' = app_removed \cup SeenPairsOf(seen, feeds[k].id)
    /\ UNCHANGED <<app_pc, app_polls, app_obtained, app_upserted, app_last,
                   chan>>
    /\ UNCHANGED exceptApp

\* A variant of the removal that reaches into the cycle under way, as if
\* the poller's loop read the shared list.
App_RemoveFeed_live ==
    /\ app_pc = "running"
    /\ \E k \in 1 .. Len(feeds) :
          /\ feeds' = remove_feed(feeds, feeds[k].id)
          /\ read' = ReadRemove(read, feeds[k].id)
          /\ qsnap' = remove_feed(qsnap, feeds[k].id)
          /\ app_removed' = app_removed \cup SeenPairsOf(seen, feeds[k].id)
    /\ UNCHANGED <<app_pc, app_polls, app_obtained, app_upserted, app_last,
                   chan, articles, seen>>
    /\ UNCHANGED <<seenSteps, seenFile, envVars, dfile, dtmp, dpc, dop,
                   pstore, pbytes, dold, fresh, dcalls, dkills, derr, onceVars,
                   qpc, qevt, qcycles, rxDropped, cancelSent, stopState,
                   stopAt, qfailed, qdone, qdropped, retryVars, concVars,
                   fetchVars, identVars, lockVars, raceVars, cyc>>

\* app.rs:889-906, the bin button: DataApi::remove_feed (data.rs:147-155)
\* drops the descriptor and the read marks of the feed; the handler then
\* prunes the list on display.
App_RemoveFeed ==
    /\ app_pc = "running"
    /\ \E k \in 1 .. Len(feeds) :
          /\ feeds' = remove_feed(feeds, feeds[k].id)
          /\ read' = ReadRemove(read, feeds[k].id)
          /\ app_removed' = app_removed \cup SeenPairsOf(seen, feeds[k].id)
    /\ UNCHANGED <<app_pc, app_polls, app_obtained, app_upserted, app_last,
                   chan, articles, seen>>
    /\ UNCHANGED exceptApp

\* app.rs:773-774: the button polls the snapshot when it is not empty.
App_RefreshAll ==
    /\ feeds # <<>>
    /\ App_PollOnce(feeds)
    /\ UNCHANGED feeds

\* One feed of the list is polled.
App_PollFeed ==
    /\ \E k \in 1 .. Len(feeds) : App_PollOnce(<<feeds[k]>>)
    /\ UNCHANGED feeds

\* app.rs:480-503, refresh_updates: every event try_recv gives is handed
\* to upsert_articles.
App_RefreshUpdates ==
    /\ app_pc = "running"
    /\ ~rxDropped
    /\ chan # <<>>
    /\ chan' = <<>>
    /\ articles' = UpsertEvents(articles, chan)
    /\ app_obtained' = app_obtained \cup EventPairs(chan)
    /\ app_upserted' = app_upserted \cup EventPairs(chan)
    /\ UNCHANGED <<app_pc, app_polls, app_last, app_removed, seen, feeds,
                   read>>
    /\ UNCHANGED exceptApp

\* ------------------------------------------------------------------------
\* The locks.  The feed list, the seen set, the read set and the article
\* cache each sit behind one tokio RwLock, which serves its waiters oldest
\* first: a reader that arrives behind a waiting writer waits too.  An
\* operation is the sequence of the guards it takes and drops, in the order
\* of its code; the file writes made under a guard are the steps other tasks
\* take between its acquisition and its release.
LockStores == {"feeds", "seen", "read", "articles"}

\* The scheduled poller, a poll_once call and two callers of the DataApi.
LockTasks == {"poller", "once", "api1", "api2"}

Acq(store, mode) == [k |-> "acq", s |-> store, m |-> mode]

Rel(store) == [k |-> "rel", s |-> store]

\* A guard taken and dropped: a temporary in one statement, a guard that
\* lives to the end of its function, or one dropped by drop().
Guarded(store, mode) == <<Acq(store, mode), Rel(store)>>

\* The guards of each operation.
\*   cycle_snapshot        poller.rs:69   feeds.read().await.clone()
\*   is_new_and_mark_seen  storage.rs:63-68, the key is in the set
\*   is_new_and_mark_new   storage.rs:63-77 then persist 87-94
\*   add_feed              feed.rs:163, persist_feeds via feed.rs:188
\*   remove_feed           data.rs:147-155
\*   list_feeds            feed.rs:188
\*   is_read               data.rs:163
\*   mark_read_new         data.rs:171-177 then persist_read 105
\*   mark_read_old         data.rs:171-180, the key is in the set
\*   upsert_articles       data.rs:186-202 then persist_articles 124
\*   list_articles         data.rs:207, 213
LockSteps(op) ==
    CASE op = "cycle_snapshot" -> Guarded("feeds", "r")
      [] op = "is_new_and_mark_seen" -> Guarded("seen", "w")
      [] op = "is_new_and_mark_new" ->
            Guarded("seen", "w") \o Guarded("seen", "r")
      [] op = "add_feed" -> Guarded("feeds", "w") \o Guarded("feeds", "r")
      [] op = "remove_feed" ->
            Guarded("feeds", "w") \o Guarded("feeds", "r")
              \o Guarded("read", "w") \o Guarded("read", "r")
      [] op = "list_feeds" -> Guarded("feeds", "r")
      [] op = "is_read" -> Guarded("read", "r")
      [] op = "mark_read_new" -> Guarded("read", "w") \o Guarded("read", "r")
      [] op = "mark_read_old" -> Guarded("read", "w")
      [] op = "upsert_articles" ->
            Guarded("articles", "w") \o Guarded("articles", "r")
      [] op = "list_articles" -> Guarded("articles", "r")

\* What each task runs: a cycle reads the feed list and marks entries
\* (poller.rs:69-73), poll_once marks entries (poller.rs:258-260), the
\* front end calls the DataApi.
OpsOf(t) ==
    IF t = "poller"
    THEN {"cycle_snapshot", "is_new_and_mark_seen", "is_new_and_mark_new"}
    ELSE IF t = "once"
    THEN {"is_new_and_mark_seen", "is_new_and_mark_new"}
    ELSE {"add_feed", "remove_feed", "list_feeds", "is_read", "mark_read_new",
          "mark_read_old", "upsert_articles", "list_articles"}

\* The stores of which a task holds a guard.
HeldStores(t) == { h[1] : h \in lk_held[t] }

\* The tasks waiting for the lock of a store.
Waiting(store) ==
    { lk_queue[store][i].t : i \in 1 .. Len(lk_queue[store]) }

\* RwLock: a write guard needs the lock free, a read guard needs it free of
\* a writer.
Grantable(store, mode) ==
    IF mode = "w"
    THEN \A u \in LockTasks : store \notin HeldStores(u)
    ELSE \A u \in LockTasks : <<store, "w">> \notin lk_held[u]

\* A task starts an operation.
Lock_Begin(t, op) ==
    /\ lk_prog[t] = <<>>
    /\ op \in OpsOf(t)
    /\ lk_prog' = [lk_prog EXCEPT ![t] = LockSteps(op)]
    /\ UNCHANGED <<lk_held, lk_queue>>
    /\ UNCHANGED exceptLock

\* .read().await or .write().await: the task joins the waiters of the lock.
Lock_Request(t) ==
    /\ lk_prog[t] # <<>>
    /\ Head(lk_prog[t]).k = "acq"
    /\ LET st == Head(lk_prog[t]) IN
         /\ t \notin Waiting(st.s)
         /\ lk_queue' = [lk_queue EXCEPT
                ![st.s] = Append(@, [t |-> t, m |-> st.m])]
    /\ UNCHANGED <<lk_prog, lk_held>>
    /\ UNCHANGED exceptLock

\* The oldest waiter of a lock gets its guard.
Lock_Grant(store) ==
    /\ lk_queue[store] # <<>>
    /\ LET w == Head(lk_queue[store]) IN
         /\ Grantable(store, w.m)
         /\ lk_held' = [lk_held EXCEPT ![w.t] = @ \cup {<<store, w.m>>}]
         /\ lk_prog' = [lk_prog EXCEPT ![w.t] = Tail(@)]
    /\ lk_queue' = [lk_queue EXCEPT ![store] = Tail(@)]
    /\ UNCHANGED exceptLock

\* A variant: the guard is not released when it goes out of scope.
Lock_Release_keep(t) ==
    /\ lk_prog[t] # <<>>
    /\ Head(lk_prog[t]).k = "rel"
    /\ lk_prog' = [lk_prog EXCEPT ![t] = Tail(@)]
    /\ UNCHANGED <<lk_held, lk_queue>>
    /\ UNCHANGED exceptLock

\* The guard is dropped: by drop(), at the end of its statement or at the
\* end of its function.
Lock_Release(t) ==
    /\ lk_prog[t] # <<>>
    /\ Head(lk_prog[t]).k = "rel"
    /\ lk_held' = [lk_held EXCEPT
            ![t] = { h \in @ : h[1] # Head(lk_prog[t]).s }]
    /\ lk_prog' = [lk_prog EXCEPT ![t] = Tail(@)]
    /\ UNCHANGED lk_queue
    /\ UNCHANGED exceptLock

\* ------------------------------------------------------------------------
\* A call of FeedEntry::identity (feed.rs:89-98) on an entry that does not
\* change.
Identity_Call ==
    /\ Len(id_out) < MaxIdentityCalls
    /\ id_out' = Append(id_out, identity(id_entry))
    /\ UNCHANGED id_entry
    /\ UNCHANGED exceptIdent

\* ------------------------------------------------------------------------
\* The initial states of the parts a specification does not move.

InitEnvIdle ==
    /\ now = 0
    /\ docs = [f \in FeedIds |-> RssDoc(<<>>)]
    /\ rcfg = PollConfig(1, 1)
    /\ overflow_checks = FALSE

InitOnceIdle ==
    /\ opc = "idle"
    /\ osnap = <<>>
    /\ oout = <<>>
    /\ oret = <<>>
    /\ ofailed = <<>>

\* No poller was spawned.
InitPollerIdle ==
    /\ qpc = "none"
    /\ qsnap = <<>>
    /\ qevt = NoEvent
    /\ qcycles = 0
    /\ chan = <<>>
    /\ rxDropped = FALSE
    /\ cancelSent = FALSE
    /\ stopState = "none"
    /\ stopAt = "none"
    /\ qfailed = {}
    /\ qdone = {}
    /\ qdropped = {}

\* No front end is followed.
InitAppIdle ==
    /\ app_pc = "none"
    /\ app_polls = 0
    /\ app_obtained = {}
    /\ app_upserted = {}
    /\ app_last = NoPoll
    /\ app_removed = {}

\* No runner shares the seen store.
InitRaceIdle ==
    /\ race_pc = [t \in Runners |-> "idle"]
    /\ race_snap = [t \in Runners |-> <<>>]
    /\ race_feed = [t \in Runners |-> ""]
    /\ race_entries = [t \in Runners |-> <<>>]
    /\ race_new = [t \in Runners |-> <<>>]
    /\ race_passes = [t \in Runners |-> 0]
    /\ emitted = <<>>

\* No pass over the feeds has started.
InitCycIdle == cyc = [w \in {"once", "poller"} |-> NoPass]

\* No lock is taken step by step.
InitLockIdle ==
    /\ lk_prog = [t \in LockTasks |-> <<>>]
    /\ lk_held = [t \in LockTasks |-> {}]
    /\ lk_queue = [s \in LockStores |-> <<>>]

\* No identity is computed on its own.
InitIdentIdle ==
    /\ id_entry = FeedEntry("", "", "", None, None)
    /\ id_out = <<>>

\* No call of fetch_feed is followed step by step.
InitFetchIdle ==
    /\ fetch_pc = "none"
    /\ feed_url = ""
    /\ sent = FALSE
    /\ content_length = None
    /\ stream = <<>>
    /\ bytes_buf = 0
    /\ chunks_read = 0
    /\ fetch_result = NoResult

InitRetryIdle ==
    /\ rpc = "idle"
    /\ attempt = 0
    /\ rfetches = 0
    /\ rfails = 0
    /\ rsleeps = <<>>
    /\ rlast = NoResult
    /\ rresult = NoResult

\* ------------------------------------------------------------------------
\* The specifications.

InitSeen ==
    /\ seenPath \in BOOLEAN
    /\ InitSeenStore
    /\ InitDataEmpty
    /\ InitEnvIdle /\ InitOnceIdle /\ InitPollerIdle /\ InitRetryIdle
    /\ InitFetchIdle
    /\ InitIdentIdle /\ InitLockIdle /\ InitCycIdle
    /\ InitRaceIdle /\ InitAppIdle

NextSeen ==
    \/ \E t \in Tasks : IsNewAndMark_Call(t)
    \/ \E t \in Tasks : IsNewAndMark_Write(t)
    \/ \E t \in Tasks : IsNewAndMark_Check(t)
    \/ \E t \in Tasks : IsNewAndMark_Insert(t)
    \/ \E t \in Tasks : Persist_Read(t)
    \/ \E t \in Tasks : Persist_Open(t)
    \/ \E t \in Tasks : Persist_WriteAll(t)
    \/ \E t \in Tasks : IsNewAndMark_Return(t)
    \/ SeenKill

SpecSeenKill == InitSeen /\ [][NextSeen]_vars

NextSeenCalls ==
    \/ \E t \in Tasks : IsNewAndMark_Call(t)
    \/ \E t \in Tasks : IsNewAndMark_Write(t)
    \/ \E t \in Tasks : IsNewAndMark_Check(t)
    \/ \E t \in Tasks : IsNewAndMark_Insert(t)
    \/ \E t \in Tasks : Persist_Read(t)
    \/ \E t \in Tasks : Persist_Open(t)
    \/ \E t \in Tasks : Persist_WriteAll(t)
    \/ \E t \in Tasks : IsNewAndMark_Return(t)

SpecSeen == InitSeen /\ [][NextSeenCalls]_vars

\* What seen_store.json and a file seen_store.json.tmp beside it can hold
\* when the store is loaded: nothing, bytes that do not parse, a complete
\* serialization.  The temp file's content differs from the primary's.
SeenFileStates(isTmp) ==
    { Missing, Corrupt,
      Full(IF isTmp THEN [f1 |-> {"url:a"}] ELSE [f1 |-> {"guid:a"}]) }

\* The store as SeenStore::load_from built it over the two files.
InitSeenLoad ==
    /\ seenPath = TRUE
    /\ seenFile \in SeenFileStates(FALSE)
    /\ seenTmp \in SeenFileStates(TRUE)
    /\ seen = SeenLoadFrom(seenFile)
    /\ seenInit = SeenLoadFrom(seenFile)
    /\ recorded = SeenLoadFrom(seenFile)
    /\ seenLock = [t \in Tasks |-> "none"]
    /\ tpc = [t \in Tasks |-> "idle"]
    /\ targ = [t \in Tasks |-> NoArg]
    /\ tbytes = [t \in Tasks |-> SeenDefault]
    /\ tret = [t \in Tasks |-> FALSE]
    /\ trueRet = [k \in SeenKeys |-> 0]
    /\ falseRet = [k \in SeenKeys |-> 0]
    /\ nCalls = 0
    /\ kills = 0
    /\ InitDataEmpty
    /\ InitEnvIdle /\ InitOnceIdle /\ InitPollerIdle /\ InitRetryIdle
    /\ InitFetchIdle
    /\ InitIdentIdle /\ InitLockIdle /\ InitCycIdle
    /\ InitRaceIdle /\ InitAppIdle

\* One caller of the loaded store, and kills of the process, each followed
\* by a load.
NextSeenLoad ==
    \/ IsNewAndMark_Call(1)
    \/ IsNewAndMark_Write(1)
    \/ IsNewAndMark_Check(1)
    \/ IsNewAndMark_Insert(1)
    \/ Persist_Read(1)
    \/ Persist_Open(1)
    \/ Persist_WriteAll(1)
    \/ IsNewAndMark_Return(1)
    \/ SeenKill

SpecSeenLoad == InitSeenLoad /\ [][NextSeenLoad]_vars

\* Tasks that share one DataApi over a directory that held no file.
NextShared ==
    \/ \E t \in Tasks, feed \in FeedArgs : AddFeed_Mutate(t, feed)
    \/ \E t \in Tasks, feed_id \in FeedIds : RemoveFeed_Mutate(t, feed_id)
    \/ \E t \in Tasks : PersistFeeds_List(t)
    \/ \E t \in Tasks, e \in ReadArgs : MarkRead_Mutate(t, e)
    \/ \E t \in Tasks : RemoveFeed_ReadMutate(t)
    \/ \E t \in Tasks : PersistRead_Lock(t)
    \/ \E t \in Tasks : Task_WriteTmp(t)
    \/ \E t \in Tasks : Task_Rename(t)

\* A seen store that SpecData, SpecLoad and SpecCache do not touch.
InitSeenIdle ==
    /\ seenPath = TRUE
    /\ InitSeenStore

NextPersist ==
    \/ Persist_OpenTmp
    \/ Persist_WriteTmp
    \/ Persist_Rename

NextData ==
    \/ \E feed \in FeedArgs : AddFeed_Call(feed)
    \/ \E feed_id \in FeedIds : RemoveFeed_Call(feed_id)
    \/ RemoveFeed_Read
    \/ \E e \in ReadArgs : MarkRead_Call(e)
    \/ \E entries \in DataBatches : UpsertArticles_Call("f1", entries)
    \/ NextPersist
    \/ DataKill

InitData ==
    /\ InitSeenIdle
    /\ InitDataEmpty
    /\ InitEnvIdle /\ InitOnceIdle /\ InitPollerIdle /\ InitRetryIdle
    /\ InitFetchIdle
    /\ InitIdentIdle /\ InitLockIdle /\ InitCycIdle
    /\ InitRaceIdle /\ InitAppIdle

SpecData == InitData /\ [][NextData]_vars

SpecShared == InitData /\ [][NextShared]_vars

\* The states of a file of store s that SpecLoad starts from: no file, a
\* file that does not parse, a complete serialization, and the complete
\* serialization of the empty store.  The temp file's content differs from
\* the primary file's.
FileStates(s, isTmp) ==
    LET sample ==
          CASE s = "feeds" ->
                 IF isTmp THEN << FeedDescriptor("f2", "B", "https://b/feed") >>
                 ELSE << FeedDescriptor("f1", "A", "https://a/feed") >>
            [] s = "read" ->
                 IF isTmp THEN [f2 |-> {"title:t5@0"}] ELSE [f1 |-> {"guid:a"}]
            [] s = "articles" ->
                 IF isTmp
                 THEN [f1 |-> << FeedEntry("f1", "t3", "u3", None, None) >>]
                 ELSE [f1 |-> << FeedEntry("f1", "t1", "u1", Some(2), Some("a")) >>]
    IN [missing |-> Missing, corrupt |-> Corrupt, full |-> Full(sample),
        empty |-> Full(StoreDefault(s))]

FileKinds == {"missing", "corrupt", "full", "empty"}

InitLoad ==
    /\ InitEnvIdle /\ InitOnceIdle /\ InitPollerIdle /\ InitRetryIdle
    /\ InitFetchIdle
    /\ InitIdentIdle /\ InitLockIdle /\ InitCycIdle
    /\ InitRaceIdle /\ InitAppIdle
    /\ InitSeenIdle
    /\ \E pk \in FileKinds, tk \in FileKinds :
          InitDataOver([s \in Stores |-> FileStates(s, FALSE)[pk]],
                       [s \in Stores |-> FileStates(s, TRUE)[tk]])

\* SpecLoad makes fewer calls than SpecData.
NextLoad ==
    \/ \E feed \in FeedArgs : dcalls < MaxLoadCalls /\ AddFeed_Call(feed)
    \/ \E feed_id \in FeedIds : dcalls < MaxLoadCalls /\ RemoveFeed_Call(feed_id)
    \/ RemoveFeed_Read
    \/ \E e \in ReadArgs : dcalls < MaxLoadCalls /\ MarkRead_Call(e)
    \/ \E entries \in DataBatches :
          dcalls < MaxLoadCalls /\ UpsertArticles_Call("f1", entries)
    \/ NextPersist
    \/ DataKill

SpecLoad == InitLoad /\ [][NextLoad]_vars

\* Feed "f1" is given every batch of CacheBatches, feed "f2" the two
\* batches of DataBatches.
NextCache ==
    \/ \E entries \in CacheBatches :
          dcalls < MaxUpserts /\ UpsertArticles_Call("f1", entries)
    \/ \E entries \in DataBatches :
          dcalls < MaxUpserts /\ UpsertArticles_Call("f2", entries)
    \/ NextPersist

SpecCache == InitData /\ [][NextCache]_vars

\* The batches of SpecMerge: three dated entries of three guids, a newer
\* entry without guid, an undated one, and a second entry of guid c with
\* another title and a later date (a feed that republished the item).
MergeBatches ==
    { << FeedEntry("f1", "t4", "u4", Some(3), Some("b")),
         FeedEntry("f1", "t1", "u1", Some(2), Some("a")) >>,
      << FeedEntry("f1", "t6", "u6", Some(1), Some("c")) >>,
      << FeedEntry("f1", "t7", "u7", Some(4), None),
         FeedEntry("f1", "t6b", "u6", Some(5), Some("c")) >>,
      << FeedEntry("f1", "t3", "u3", None, None) >>,
      << FeedEntry("f1", "t6", "u6", Some(1), Some("c")),
         FeedEntry("f1", "t6b", "u6", Some(5), Some("c")) >> }

\* upsert_articles calls on one feed, enough of them to fill its sequence
\* and truncate it.
NextMerge ==
    \/ \E entries \in MergeBatches : UpsertArticles_Call("f1", entries)
    \/ NextPersist

SpecMerge == InitData /\ [][NextMerge]_vars

\* ------------------------------------------------------------------------
\* The poller's specifications.

\* The feed list of the poll specifications: two feeds over https.
PollFeeds ==
    << FeedDescriptor("f1", "A", "https://a/feed"),
       FeedDescriptor("f2", "B", "https://b/feed") >>

\* The documents a feed can serve: an empty channel; three items of two
\* identities (one guid twice, one link); an item identified by its title
\* and pubDate and one with a link and a pubDate that does not parse; an
\* item with a title only; an Atom entry without link and published date;
\* bytes that are no feed.
DocPool ==
    { RssDoc(<<>>),
      RssDoc(<< RssItem(Some("t1"), Some("u1"), Some("a"), Some(GoodDate(1))),
                RssItem(Some("t1b"), Some("u1b"), Some("a"), None),
                RssItem(Some("t2"), Some("u2"), None, None) >>),
      RssDoc(<< RssItem(Some("t8"), None, None, Some(GoodDate(1))),
                RssItem(None, Some("u9"), None, Some(BadDate)) >>),
      RssDoc(<< RssItem(Some("t5"), None, None, None) >>),
      AtomDoc(<< AtomEntry("x", "t7", <<>>, None, 1) >>),
      BadDoc }

\* A configuration whose backoffs stay in the word, and one whose second
\* backoff leaves it.
PollCfgs == { PollConfig(1, 1), PollConfig(2, Word \div 2) }

\* A restart over a directory whose feeds.json holds PollFeeds.
InitDataWithFeeds ==
    InitDataOver([s \in Stores |->
                    IF s = "feeds" THEN Full(PollFeeds) ELSE Missing],
                 [s \in Stores |-> Missing])

InitPollOnce ==
    /\ seenPath = FALSE
    /\ InitSeenStore
    /\ InitDataWithFeeds
    /\ now = 0
    /\ docs \in [FeedIds -> DocPool]
    /\ rcfg \in PollCfgs
    /\ overflow_checks \in BOOLEAN
    /\ InitOnceIdle /\ InitPollerIdle /\ InitRetryIdle /\ InitFetchIdle
    /\ InitIdentIdle /\ InitLockIdle /\ InitCycIdle
    /\ InitRaceIdle /\ InitAppIdle

NextPollOnce ==
    \/ PollOnce_Call
    \/ PollOnce_FetchOk
    \/ PollOnce_FetchErr
    \/ PollOnce_FetchPanic
    \/ PollOnce_Return
    \/ ClockTick

SpecPollOnce == InitPollOnce /\ [][NextPollOnce]_vars

\* The documents of SpecPoller: feed f1 serves the three items or the item
\* with a title only, feed f2 the Atom entry or bytes that are no feed.
PollerDocs ==
    { [f1 |-> RssDoc(<< RssItem(Some("t1"), Some("u1"), Some("a"), Some(GoodDate(1))),
                        RssItem(Some("t1b"), Some("u1b"), Some("a"), None),
                        RssItem(Some("t2"), Some("u2"), None, None) >>),
       f2 |-> AtomDoc(<< AtomEntry("x", "t7", <<>>, None, 1) >>)],
      [f1 |-> RssDoc(<< RssItem(Some("t5"), None, None, None) >>),
       f2 |-> AtomDoc(<< AtomEntry("x", "t7", <<>>, None, 1) >>)],
      [f1 |-> RssDoc(<< RssItem(Some("t5"), None, None, None) >>),
       f2 |-> BadDoc] }

\* spawn_poller has returned: the task is at its select.
InitPoller ==
    /\ seenPath = FALSE
    /\ InitSeenStore
    /\ InitDataWithFeeds
    /\ now = 0
    /\ docs \in PollerDocs
    /\ rcfg \in PollCfgs
    /\ overflow_checks \in BOOLEAN
    /\ InitOnceIdle /\ InitRetryIdle /\ InitFetchIdle
    /\ InitIdentIdle /\ InitLockIdle /\ InitCycIdle
    /\ InitRaceIdle /\ InitAppIdle
    /\ qpc = "select"
    /\ qsnap = <<>>
    /\ qevt = NoEvent
    /\ qcycles = 0
    /\ chan = <<>>
    /\ rxDropped = FALSE
    /\ cancelSent = FALSE
    /\ stopState = "none"
    /\ stopAt = "none"
    /\ qfailed = {}
    /\ qdone = {}
    /\ qdropped = {}

\* The steps of the poller task.
PollerTask ==
    \/ Poller_Cancel
    \/ Poller_Tick
    \/ Poller_FetchOk
    \/ Poller_FetchErr
    \/ Poller_FetchPanic
    \/ Poller_Send
    \/ Poller_SendClosed
    \/ Poller_CycleEnd

NextPoller ==
    \/ Poller_Cancel
    \/ Poller_Tick
    \/ Poller_FetchOk
    \/ Poller_FetchErr
    \/ Poller_FetchPanic
    \/ Poller_Send
    \/ Poller_SendClosed
    \/ Poller_CycleEnd
    \/ Gui_TryRecv
    \/ Rx_Drop
    \/ Stop_Call
    \/ Stop_Return
    \/ ClockTick

SpecPoller == InitPoller /\ [][NextPoller]_vars

\* Either way of polling: the scheduled poller was spawned and the front
\* end leaves poll_once alone, or no poller runs and the front end polls by
\* hand with poll_once.
InitPolling ==
    \/ InitPollOnce
    \/ /\ seenPath = FALSE
       /\ InitSeenStore
       /\ InitDataWithFeeds
       /\ now = 0
       /\ docs \in PollerDocs
       /\ rcfg \in PollCfgs
       /\ overflow_checks \in BOOLEAN
       /\ InitRetryIdle /\ InitFetchIdle
       /\ InitIdentIdle /\ InitLockIdle /\ InitCycIdle
       /\ InitRaceIdle /\ InitAppIdle
       /\ opc = "none"
       /\ osnap = <<>>
       /\ oout = <<>>
       /\ oret = <<>>
       /\ ofailed = <<>>
       /\ qpc = "select"
       /\ qsnap = <<>>
       /\ qevt = NoEvent
       /\ qcycles = 0
       /\ chan = <<>>
       /\ rxDropped = FALSE
       /\ cancelSent = FALSE
       /\ stopState = "none"
       /\ stopAt = "none"
       /\ qfailed = {}
       /\ qdone = {}
       /\ qdropped = {}

NextPolling ==
    \/ PollOnce_Call
    \/ PollOnce_FetchOk
    \/ PollOnce_FetchErr
    \/ PollOnce_FetchPanic
    \/ PollOnce_Return
    \/ Poller_Cancel
    \/ Poller_Tick
    \/ Poller_FetchOk
    \/ Poller_FetchErr
    \/ Poller_FetchPanic
    \/ Poller_Send
    \/ Poller_SendClosed
    \/ Poller_CycleEnd
    \/ Gui_TryRecv
    \/ Rx_Drop
    \/ Stop_Call
    \/ Stop_Return
    \/ ClockTick

SpecPolling == InitPolling /\ [][NextPolling]_vars

\* The runtime schedules the poller task whenever it can take a step (every
\* fetch, mark and sleep of it ends), and the task awaiting the join when
\* the join is ready.  Nothing obliges the front end to receive, to drop the
\* receiver or to call stop.
SpecPollerFair ==
    /\ InitPoller
    /\ [][NextPoller]_vars
    /\ WF_vars(PollerTask)
    /\ WF_vars(Stop_Return)

\* fetch_feed_with_retries was called with a configuration of the word's
\* range, in either build.
InitRetry ==
    /\ seenPath = TRUE
    /\ InitSeenStore
    /\ InitDataEmpty
    /\ now = 0
    /\ docs = [f \in FeedIds |-> RssDoc(<<>>)]
    /\ rcfg \in { PollConfig(m, b) : m \in 0 .. MaxRetries, b \in 0 .. Word - 1 }
    /\ overflow_checks \in BOOLEAN
    /\ InitOnceIdle /\ InitPollerIdle /\ InitFetchIdle
    /\ InitIdentIdle /\ InitLockIdle /\ InitCycIdle
    /\ InitRaceIdle /\ InitAppIdle
    /\ rpc = "fetch"
    /\ attempt = 0
    /\ rfetches = 0
    /\ rfails = 0
    /\ rsleeps = <<>>
    /\ rlast = NoResult
    /\ rresult = NoResult

NextRetry ==
    \/ Retry_FetchOk
    \/ \E kind \in ErrKinds : Retry_FetchErr(kind)
    \/ Retry_Wake

SpecRetry == InitRetry /\ [][NextRetry]_vars

\* The documents of SpecFetch: an RSS channel without items, an Atom feed,
\* bytes that are no feed, and bytes that both parsers read.
FetchDocs ==
    { RssDoc(<<>>),
      AtomDoc(<< AtomEntry("x", "t7", <<>>, None, 1) >>),
      BadDoc,
      BothDoc(<< RssItem(Some("t1"), Some("u1"), Some("a"), Some(GoodDate(1))) >>,
              << AtomEntry("x", "t7", <<>>, None, 1),
                 AtomEntry("y", "t8", <<>>, None, 1) >>) }

\* fetch_feed was called for a feed with one of the urls and one of the
\* documents.
InitFetch ==
    /\ seenPath = TRUE
    /\ InitSeenStore
    /\ InitDataEmpty
    /\ now = 0
    /\ \E d \in FetchDocs : docs = [f \in FeedIds |-> d]
    /\ rcfg = PollConfig(1, 1)
    /\ overflow_checks = FALSE
    /\ InitOnceIdle /\ InitPollerIdle /\ InitRetryIdle
    /\ InitIdentIdle /\ InitLockIdle /\ InitCycIdle
    /\ InitRaceIdle /\ InitAppIdle
    /\ fetch_pc = "start"
    /\ feed_url \in FetchUrls
    /\ sent = FALSE
    /\ content_length = None
    /\ stream = <<>>
    /\ bytes_buf = 0
    /\ chunks_read = 0
    /\ fetch_result = NoResult

NextFetch ==
    \/ Fetch_CheckUrl
    \/ Fetch_Send
    \/ Fetch_CheckLength
    \/ Fetch_NextChunk
    \/ Fetch_Parse

SpecFetch == InitFetch /\ [][NextFetch]_vars

\* The poller, a poll_once call and the callers of the DataApi take and
\* drop the locks of the four stores.
InitLocks ==
    /\ seenPath = TRUE
    /\ InitSeenStore
    /\ InitDataEmpty
    /\ InitEnvIdle /\ InitOnceIdle /\ InitPollerIdle /\ InitRetryIdle
    /\ InitFetchIdle /\ InitIdentIdle /\ InitCycIdle /\ InitRaceIdle
    /\ InitAppIdle
    /\ InitLockIdle

LockProgress ==
    \/ \E t \in LockTasks : Lock_Request(t)
    \/ \E store \in LockStores : Lock_Grant(store)
    \/ \E t \in LockTasks : Lock_Release(t)

NextLocks ==
    \/ \E t \in LockTasks : \E op \in OpsOf(t) : Lock_Begin(t, op)
    \/ LockProgress

SpecLocks == InitLocks /\ [][NextLocks]_vars

\* main.rs:46-83: the poller is spawned, then the front end is built and
\* runs beside it.
InitApp ==
    /\ seenPath = FALSE
    /\ InitSeenStore
    /\ InitDataWithFeeds
    /\ now = 0
    /\ docs \in PollerDocs
    /\ rcfg = PollConfig(1, 1)
    /\ overflow_checks = FALSE
    /\ InitOnceIdle /\ InitRetryIdle /\ InitFetchIdle
    /\ InitIdentIdle /\ InitLockIdle /\ InitCycIdle
    /\ InitRaceIdle
    /\ qpc = "select"
    /\ qsnap = <<>>
    /\ qevt = NoEvent
    /\ qcycles = 0
    /\ chan = <<>>
    /\ rxDropped = FALSE
    /\ cancelSent = FALSE
    /\ stopState = "none"
    /\ stopAt = "none"
    /\ qfailed = {}
    /\ qdone = {}
    /\ qdropped = {}
    /\ app_pc = "new"
    /\ app_polls = 0
    /\ app_obtained = {}
    /\ app_upserted = {}
    /\ app_last = NoPoll
    /\ app_removed = {}

NextApp ==
    \/ App_New
    \/ App_RefreshAll
    \/ App_PollFeed
    \/ App_RefreshUpdates
    \/ Poller_Tick
    \/ Poller_FetchOk
    \/ Poller_FetchErr
    \/ Poller_Send
    \/ Poller_CycleEnd
    \/ ClockTick

SpecApp == InitApp /\ [][NextApp]_vars

\* The front end alone, with its add form and its bin button: feeds are
\* removed and added again between the one-shot polls.
NextAppFeeds ==
    \/ App_New
    \/ App_RefreshAll
    \/ App_PollFeed
    \/ App_AddFeed
    \/ App_RemoveFeed
    \/ ClockTick

SpecAppFeeds == InitApp /\ [][NextAppFeeds]_vars

\* The scheduled poller while the front end removes and adds feeds and
\* drains the channel.
NextSnapshot ==
    \/ App_New
    \/ App_AddFeed
    \/ App_RemoveFeed
    \/ App_RefreshUpdates
    \/ Poller_Tick
    \/ Poller_FetchOk
    \/ Poller_FetchErr
    \/ Poller_Send
    \/ Poller_CycleEnd

\* Both feeds serve a document with one entry.
InitSnapshot ==
    /\ InitApp
    /\ docs["f1"] = RssDoc(<< RssItem(Some("t5"), None, None, None) >>)
    /\ docs["f2"] # BadDoc

SpecSnapshot == InitSnapshot /\ [][NextSnapshot]_vars

\* The receiver of the events has been dropped; the poller goes on and the
\* front end, which has the same seen store, calls poll_once.  Nobody calls
\* stop.
InitDropped ==
    /\ seenPath = FALSE
    /\ InitSeenStore
    /\ InitDataWithFeeds
    /\ now = 0
    /\ docs \in { d \in PollerDocs : d.f2 # BadDoc /\ Len(d.f1.items) = 1 }
    /\ rcfg = PollConfig(1, 1)
    /\ overflow_checks = FALSE
    /\ InitOnceIdle /\ InitRetryIdle /\ InitFetchIdle
    /\ InitIdentIdle /\ InitLockIdle /\ InitCycIdle
    /\ InitRaceIdle /\ InitAppIdle
    /\ qpc = "select"
    /\ qsnap = <<>>
    /\ qevt = NoEvent
    /\ qcycles = 0
    /\ chan = <<>>
    /\ rxDropped = TRUE
    /\ cancelSent = FALSE
    /\ stopState = "none"
    /\ stopAt = "none"
    /\ qfailed = {}
    /\ qdone = {}
    /\ qdropped = {}

NextDropped ==
    \/ PollOnce_Call
    \/ PollOnce_FetchOk
    \/ PollOnce_FetchErr
    \/ PollOnce_Return
    \/ Poller_Tick
    \/ Poller_FetchOk
    \/ Poller_FetchErr
    \/ Poller_SendClosed
    \/ Poller_CycleEnd
    \/ ClockTick

SpecDropped == InitDropped /\ [][NextDropped]_vars

\* The poller and a caller of poll_once run on one seen store.
InitRace ==
    /\ seenPath = FALSE
    /\ InitSeenStore
    /\ InitDataWithFeeds
    /\ now = 0
    /\ docs \in PollerDocs
    /\ rcfg = PollConfig(1, 1)
    /\ overflow_checks = FALSE
    /\ InitOnceIdle /\ InitPollerIdle /\ InitRetryIdle /\ InitFetchIdle
    /\ InitIdentIdle /\ InitLockIdle /\ InitCycIdle
    /\ InitRaceIdle /\ InitAppIdle

NextRace ==
    \/ \E t \in Runners : Race_Start(t)
    \/ \E t \in Runners : Race_Fetch(t)
    \/ \E t \in Runners : Race_Mark(t)
    \/ \E t \in Runners : Race_Emit(t)
    \/ \E t \in Runners : Race_End(t)
    \/ ClockTick

SpecRace == InitRace /\ [][NextRace]_vars

\* identity() is called on one of the entries.
InitIdentity ==
    /\ seenPath = TRUE
    /\ InitSeenStore
    /\ InitDataEmpty
    /\ InitEnvIdle /\ InitOnceIdle /\ InitPollerIdle /\ InitRetryIdle
    /\ InitFetchIdle /\ InitLockIdle /\ InitCycIdle /\ InitRaceIdle
    /\ InitAppIdle
    /\ id_entry \in IdentityArgs
    /\ id_out = <<>>

NextIdentity == Identity_Call

SpecIdentity == InitIdentity /\ [][NextIdentity]_vars

\* ------------------------------------------------------------------------
\* Claims on the seen store.

InSeen(data, k) == SeenContains(data, k[1], k[2])

\* The calls in flight that have inserted k and have not returned yet.
InsertedInFlight(k) ==
    { t \in Tasks : /\ tpc[t] \in {"p_lock", "p_open", "p_write", "ret"}
                    /\ tret[t]
                    /\ SeenKey(targ[t]) = k }

C1_State ==
    \A k \in SeenKeys :
        /\ trueRet[k] + Cardinality(InsertedInFlight(k))
             = (IF InSeen(seen, k) /\ ~InSeen(seenInit, k) THEN 1 ELSE 0)
        /\ falseRet[k] > 0 => InSeen(seen, k)
        /\ \A t \in Tasks :
              (tpc[t] = "ret" /\ ~tret[t] /\ SeenKey(targ[t]) = k) => InSeen(seen, k)

\* A step of a call other than its insert (which leads to true) leaves the
\* seen map as it is.
C1_Frame ==
    \A t \in Tasks :
        (tpc'[t] # tpc[t] /\ tpc[t] # "insert" /\ kills' = kills) => seen' = seen

\* C1: in every interleaving of concurrent is_new_and_mark calls on one
\* SeenStore, among the calls with the same feed_id and Identity exactly one
\* returns true (the one whose insert put the identity into the map, when
\* the store was not constructed with it); every other call returns false,
\* and only after the identity is in the map, without changing the map.
C1_ExactlyOneTrue == [][C1_State' /\ C1_Frame]_vars

\* Two calls with the same feed_id and Identity overlap: one has decided
\* false while the other, which inserted, is still writing the file.
C1_Witness ==
    \E t \in Tasks, u \in Tasks :
        /\ t # u
        /\ SeenKey(targ[t]) = SeenKey(targ[u])
        /\ targ[t] # targ[u]
        /\ tpc[t] = "ret" /\ ~tret[t]
        /\ tpc[u] = "p_write" /\ tret[u]

SeenCovers(a, b) ==
    \A f \in DOMAIN b : f \in DOMAIN a /\ b[f] \subseteq a[f]

\* C4: SeenStore::persist replaces seen_store.json atomically, so a kill of
\* the process during a write followed by load_from never loses the
\* identities the file held before: the store loaded after a kill covers
\* the last complete content of the file.
C4_KillKeepsRecorded ==
    [][(kills' = kills + 1) => SeenCovers(seen', recorded)]_vars

\* ------------------------------------------------------------------------
\* Claims on the DataApi stores.

Mem(s) ==
    CASE s = "feeds" -> feeds
      [] s = "read" -> read
      [] s = "articles" -> articles

\* C3: for each DataApi store, when the process is killed at any point of
\* a persist, load_from_dir recovers either the complete previous state
\* (what a load gave before the persist began) or the complete new state
\* (what the persist serialized), never anything else.
C3_KillRecoversPrevOrNew ==
    [][(dkills' = dkills + 1) =>
         \A s \in Stores :
            \/ Mem(s)' = dold[s]
            \/ pstore = s /\ Mem(s)' = pbytes]_vars

\* C5: what load_from_dir builds, for each of the three stores: the
\* primary file's content when it parses; the temp file's content when the
\* primary is corrupted and the temp file parses; the empty default when
\* neither parses.
C5_LoadFallback ==
    fresh =>
      \A s \in Stores :
         /\ dfile[s].kind = "full" => Mem(s) = dfile[s].data
         /\ (dfile[s].kind = "corrupt" /\ dtmp[s].kind = "full")
               => Mem(s) = dtmp[s].data
         /\ (dfile[s].kind # "full" /\ dtmp[s].kind # "full")
               => Mem(s) = StoreDefault(s)

\* load_from_dir has run over a corrupted primary file and a valid temp
\* file, and holds the temp files' feeds, read marks and articles.
C5_Witness ==
    /\ fresh
    /\ \A s \in Stores :
          /\ dfile[s].kind = "corrupt"
          /\ dtmp[s].kind = "full"
          /\ Mem(s) # StoreDefault(s)
          /\ Mem(s) = dtmp[s].data

\* C6: after any sequence of upsert_articles calls every feed's cached
\* sequence has at most MAX_PER_FEED entries and is sorted by published_at
\* descending, the entries without a date last.
C6_CacheBoundedSorted ==
    \A f \in DOMAIN articles :
       /\ Len(articles[f]) <= MAX_PER_FEED
       /\ \A i \in 1 .. Len(articles[f]), j \in 1 .. Len(articles[f]) :
             i < j =>
               LET a == articles[f][i].published_at
                   b == articles[f][j].published_at
               IN /\ a = None => b = None
                  /\ (a # None /\ b # None) => Unwrap(a) >= Unwrap(b)

\* An upsert has filled a feed's sequence and truncated an incoming entry
\* away, and the sequence holds dated and undated entries.
C6_Witness ==
    /\ dop.name = "upsert_articles"
    /\ dpc = "p_open"
    /\ Len(articles[dop.feed_id]) = MAX_PER_FEED
    /\ \E i \in 1 .. Len(dop.entries) :
          identity(dop.entries[i]) \notin Identities(articles[dop.feed_id])
    /\ articles[dop.feed_id][1].published_at # None
    /\ articles[dop.feed_id][MAX_PER_FEED].published_at = None

\* C7: in every state reached by upsert_articles calls from an empty cache
\* no two entries of one feed's sequence have the same Identity.
C7_NoDuplicateIdentity ==
    \A f \in DOMAIN articles :
       \A i \in 1 .. Len(articles[f]), j \in 1 .. Len(articles[f]) :
          i # j => identity(articles[f][i]) # identity(articles[f][j])

\* An upsert was given a batch with the same Identity twice (in entries
\* that differ), and the feed's sequence holds that Identity.
C7_Witness ==
    /\ dop.name = "upsert_articles"
    /\ dpc = "p_open"
    /\ \E i \in 1 .. Len(dop.entries), j \in 1 .. Len(dop.entries) :
          /\ i # j
          /\ dop.entries[i] # dop.entries[j]
          /\ identity(dop.entries[i]) = identity(dop.entries[j])
          /\ identity(dop.entries[i]) \in Identities(articles[dop.feed_id])

\* ------------------------------------------------------------------------
\* Claims on poll_once, the poller and the retry wrapper.

\* The events of `out` that name feed f.
EventsOf(out, f) == SelectSeq(out, LAMBDA ev : ev.feed_id = f)

\* An item that has a guid, a non-empty link or a pubDate that parses; an
\* Atom entry always has its id.
Identifiable(doc) ==
    doc.format = "rss" =>
      \A i \in 1 .. Len(doc.items) :
         \/ IsSome(doc.items[i].guid)
         \/ IsSome(doc.items[i].link) /\ Unwrap(doc.items[i].link) # ""
         \/ /\ IsSome(doc.items[i].pub_date)
            /\ IsSome(parse_from_rfc2822(Unwrap(doc.items[i].pub_date)))

\* The identities of the entries of f's document (fetched at time 0).
DocIdentities(f) ==
    LET r == fetch_feed(f, docs[f.id], 0)
    IN IF r.ok THEN Identities(r.entries) ELSE {}

FeedOf(id) == CHOOSE f \in { PollFeeds[i] : i \in 1 .. Len(PollFeeds) } : f.id = id

\* C2 as stated: when poll_once is run twice in succession over a feed whose
\* document does not change and the first call fetched it, the second call
\* returns no event for that feed.
C2_SecondPollEmpty ==
    \A i \in 1 .. Len(oret) - 1 : \A f \in FeedIds :
       f \notin ofailed[i] => EventsOf(oret[i + 1], f) = <<>>

\* C2, amended: the same for a feed whose every item has a guid, a non-empty
\* link or a pubDate that parses; and the first call of all returns, for
\* such a feed it fetched, one event with the N distinct identities of the
\* document when N > 0 and no event when N = 0.
C2_SecondPollEmptyIdentifiable ==
    /\ \A i \in 1 .. Len(oret) - 1 : \A f \in FeedIds :
          (f \notin ofailed[i] /\ Identifiable(docs[f]))
             => EventsOf(oret[i + 1], f) = <<>>
    /\ \A f \in FeedIds :
          (Len(oret) >= 1 /\ f \notin ofailed[1] /\ Identifiable(docs[f]))
             => LET N == Cardinality(DocIdentities(FeedOf(f)))
                    evs == EventsOf(oret[1], f)
                IN IF N = 0 THEN evs = <<>>
                   ELSE Len(evs) = 1 /\ Len(evs[1].entries) = N

\* Two calls were made over a document of three items and two identities;
\* the first returned the two entries in one event, the second no event.
C2_Witness ==
    /\ Len(oret) = 2
    /\ ofailed[1] = {} /\ ofailed[2] = {}
    /\ Len(docs["f1"].items) = 3
    /\ Len(EventsOf(oret[1], "f1")) = 1
    /\ Len(EventsOf(oret[1], "f1")[1].entries) = 2
    /\ oret[2] = <<>>

\* C8: stop returns only when the poller task has ended, and once it has
\* returned no event is sent and no identity is marked.
C8_StopAfterExit ==
    [][ /\ stopState' = "returned" => qpc' \in {"exited", "panicked"}
        /\ stopState = "returned" => (chan' = chan /\ seen' = seen) ]_vars

\* stop was called while the task was in a cycle, and has returned after
\* the task left its loop.
C8_Witness ==
    /\ stopState = "returned"
    /\ stopAt \in {"cycle", "send"}
    /\ qpc = "exited"

\* C9: once stop is called it returns, whatever the state of the channel.
C9_StopReturns == (stopState = "joining") ~> (stopState = "returned")

\* C10: a call that ended returned the result of its last fetch_feed call;
\* a success is the first success, after at most max_retries failures; a
\* call whose attempts all failed ended by returning that error after
\* max_retries + 1 attempts; with max_retries = 0 there was one attempt and
\* no sleep.
C10_RetryResult ==
    /\ rpc = "returned" =>
          /\ rresult = rlast
          /\ rresult.ok => (rfetches = rfails + 1 /\ rfails <= rcfg.max_retries)
          /\ rcfg.max_retries = 0 => (rfetches = 1 /\ rsleeps = <<>>)
    /\ (rpc \in {"returned", "panicked"} /\ rfails = rfetches) =>
          /\ rpc = "returned"
          /\ ~rresult.ok
          /\ rfetches = rcfg.max_retries + 1

\* C11: the sleep before retry k is retry_backoff_ms * 2^(k-1) milliseconds
\* for every configuration, the expression never overflowing (the call does
\* not panic) nor wrapping, so the sleeps of a call never decrease.
C11_BackoffExact ==
    /\ rpc # "panicked"
    /\ \A k \in 1 .. Len(rsleeps) :
          rsleeps[k] = rcfg.retry_backoff_ms * (2 ^ (k - 1))
    /\ \A k \in 1 .. Len(rsleeps) - 1 : rsleeps[k] <= rsleeps[k + 1]

\* The ids of the feed list, and whether every identity of g's document is
\* marked in the seen store.
FeedSetIds == { feeds[i].id : i \in 1 .. Len(feeds) }

Marked(g) ==
    \A k \in DocIdentities(FeedOf(g)) : SeenContains(seen, g, k)

\* C12: in a scheduled cycle and in poll_once, the step at which the fetch
\* of a feed has failed sends and pushes no event and leaves the seen store
\* alone, and the poller task goes on with its cycle; the cycle and the call
\* end only when every feed of the set has either failed or been fetched
\* (the identities of an identifiable document are then marked), and
\* poll_once returns no event of a feed that failed.
C12_FailedFeedSkipped ==
    [][ /\ (qfailed' # qfailed /\ qfailed' # {})
            => /\ seen' = seen /\ chan' = chan /\ qevt' = qevt
               /\ qpc' = "cycle"
        /\ (qpc = "cycle" /\ qpc' = "select")
            => \A g \in FeedSetIds :
                  \/ g \in qfailed
                  \/ g \in qdone /\ (Identifiable(docs[g]) => Marked(g))
        /\ (Len(ofailed') = Len(ofailed) /\ ofailed' # ofailed)
            => /\ seen' = seen /\ oout' = oout
               /\ opc' = "feeds"
        /\ Len(oret') > Len(oret)
            => \A g \in FeedSetIds :
                  IF g \in ofailed[Len(ofailed)]
                  THEN EventsOf(oret'[Len(oret')], g) = <<>>
                  ELSE Identifiable(docs[g]) => Marked(g) ]_vars

\* A cycle has ended in which the fetch of f1 failed and f2, next in the
\* list, was fetched and marked; the task waits for the next tick.
C12_Witness ==
    /\ qpc = "select"
    /\ qfailed = {"f1"}
    /\ qdone = {"f2"}
    /\ "f2" \in DOMAIN seen
    /\ "f1" \notin DOMAIN seen

\* The primary file of store s holds the serialization of `mem`, or the
\* store was never written and `mem` is its default.
FileMatches(s, mem, default) ==
    \/ dfile[s] = Full(mem)
    \/ dfile[s] = Missing /\ mem = default

AllReturned == \A t \in Tasks : cpc[t] = "idle"

\* C13: whenever all mutating calls of the tasks sharing a DataApi have
\* returned and no write or rename has failed, feeds.json holds the
\* serialization of the feed list and read_store.json that of the read map.
C13_FilesMatchMemory ==
    (AllReturned /\ ~cerr)
       => /\ FileMatches("feeds", feeds, <<>>)
          /\ FileMatches("read", read, ReadDefault)

\* The same for read_store.json alone, whose persist serializes and writes
\* under the read lock of read_inner.
C13_ReadFileMatchesMemory ==
    (AllReturned /\ ~cerr) => FileMatches("read", read, ReadDefault)

\* What a read made now answers about the call `op` in progress: the feed
\* added is listed, the feed removed is not (nor its read marks once they
\* were dropped), the entry marked is read, and the articles upserted are
\* listed unless the list is at its cap.
Reflects(op) ==
    CASE op.name = "add_feed" ->
           \E i \in 1 .. Len(feeds) : feeds[i] = op.feed
      [] op.name = "remove_feed" ->
           /\ \A i \in 1 .. Len(feeds) : feeds[i].id # op.feed_id
           /\ pstore = "read" => op.feed_id \notin DOMAIN read
      [] op.name = "mark_read" -> is_read(read, op.entry)
      [] op.name = "upsert_articles" ->
           LET listed == list_articles(articles, op.feed_id)
           IN \/ Identities(op.entries) \subseteq Identities(listed)
              \/ Len(listed) = MAX_PER_FEED
      [] OTHER -> TRUE

\* C14: every step of a persist of add_feed, remove_feed, mark_read or
\* upsert_articles, a failed open, write or rename included, leaves the feed
\* list, the read map and the articles as the call changed them and moves
\* the call on towards its return, and a read made then reflects the call.
C14_MutationKept ==
    [][ (dpc \in {"p_open", "p_write", "p_rename"} /\ dkills' = dkills)
          => /\ feeds' = feeds /\ read' = read /\ articles' = articles
             /\ dpc' \in {"p_write", "p_rename", "rm_read", "idle"}
             /\ Reflects(dop) ]_vars

\* The same for is_new_and_mark: a persist that ends, failed or not, leaves
\* the seen set alone and the call that inserted returns true.
C14_SeenMutationKept ==
    [][ \A t \in Tasks :
          (tpc[t] \in {"p_open", "p_write"} /\ tpc'[t] = "ret")
             => /\ seen' = seen
                /\ tret'[t]
                /\ SeenContains(seen, targ[t].feed_id, identity(targ[t])) ]_vars

\* mark_read has returned after its write or rename failed: the entry is
\* read in memory and read_store.json was never made.
C14_Witness ==
    /\ dpc = "idle"
    /\ derr
    /\ dkills = 0
    /\ dfile["read"] = Missing
    /\ \E e \in ReadArgs : is_read(read, e)

\* C15: a mark_read(e) that goes on to persist_read found e unread and has
\* inserted its identity, so that is_read(e) holds and the bytes to write
\* are the new map; a mark_read(e) of an entry already read returns at once
\* and changes neither the feed list, the read map, the articles nor any
\* file.
C15_MarkReadIdempotent ==
    [][ (dpc = "idle" /\ dcalls' = dcalls + 1)
          => /\ dop'.name = "mark_read"
                  => /\ ~is_read(read, dop'.entry)
                     /\ is_read(read', dop'.entry)
                     /\ read' = SeenInsert(read, dop'.entry.feed_id,
                                           identity(dop'.entry))
                     /\ dpc' = "p_open" /\ pstore' = "read" /\ pbytes' = read'
             /\ dpc' = "idle"
                  => /\ \E e \in ReadArgs : is_read(read, e)
                     /\ read' = read /\ feeds' = feeds /\ articles' = articles
                     /\ dfile' = dfile /\ dtmp' = dtmp ]_vars

\* Two calls were made and both were mark_read of the same entry (no other
\* store has a file, and nothing failed): the second found it read, and
\* read_store.json is as the first wrote it.
C15_Witness ==
    /\ dcalls = 2 /\ dkills = 0 /\ ~derr
    /\ dpc = "idle"
    /\ dfile["feeds"] = Missing /\ dfile["articles"] = Missing
    /\ dfile["read"] = Full(read)
    /\ \E e \in ReadArgs :
          read = SeenInsert(ReadDefault, e.feed_id, identity(e))

\* C16: when every call made through a DataApi has returned and no write or
\* rename had failed, the DataApi that load_from_dir then builds over the
\* same directory has the same feed list and the same read map: it lists
\* every feed added and reports every entry marked as read.
C16_RoundTrip ==
    [][ (dkills' = dkills + 1 /\ dpc = "idle" /\ ~derr)
          => /\ feeds' = feeds
             /\ read' = read
             /\ \A e \in ReadArgs : is_read(read', e) = is_read(read, e) ]_vars

\* A freshly loaded DataApi, after an add_feed and a mark_read made through
\* the one before with no failure, lists a feed and reports an entry read.
C16_Witness ==
    /\ fresh /\ dkills = 1 /\ ~derr
    /\ dpc = "idle"
    /\ dcalls = 2
    /\ dfile["feeds"] = Full(feeds) /\ feeds # <<>>
    /\ dfile["read"] = Full(read)
    /\ \E e \in ReadArgs : is_read(read, e)

\* C17: the feed list never holds two descriptors with one id, and an
\* add_feed of an id already in the list leaves its length unchanged and
\* leaves under that id the descriptor given, with its title and url.
C17_UpsertById ==
    [][ /\ \A i, j \in 1 .. Len(feeds') :
              feeds'[i].id = feeds'[j].id => i = j
        /\ (dpc = "idle" /\ dop'.name = "add_feed")
              => /\ \E i \in 1 .. Len(feeds') : feeds'[i] = dop'.feed
                 /\ (\E i \in 1 .. Len(feeds) : feeds[i].id = dop'.feed.id)
                       => Len(feeds') = Len(feeds) ]_vars

\* add_feed of f1 with a new title and url is in progress over a list that
\* held f1 (feeds.json still has the old descriptor): the list has one
\* descriptor, the new one.
C17_Witness ==
    /\ dpc = "p_open" /\ dkills = 0 /\ ~derr
    /\ dop = [name |-> "add_feed",
              feed |-> FeedDescriptor("f1", "A2", "https://a/feed2")]
    /\ dfile["feeds"] = Full(<<FeedDescriptor("f1", "A", "https://a/feed")>>)
    /\ feeds = <<FeedDescriptor("f1", "A2", "https://a/feed2")>>

\* The steps of a remove_feed: its start, the drop of the read marks, and
\* its return.
RemoveStarts == dpc = "idle" /\ dop'.name = "remove_feed"

RemoveDropsMarks == dpc = "rm_read" /\ dkills' = dkills

RemoveReturns ==
    /\ dop.name = "remove_feed" /\ dpc = "p_rename" /\ pstore = "read"
    /\ dkills' = dkills

\* What remove_feed does in memory: the list loses the descriptors of the
\* id and keeps the others in their order, the read map loses the id and
\* keeps the other sets, and at the return neither holds the id.
RemoveInMemory ==
    /\ RemoveStarts
          => feeds' = SelectSeq(feeds, LAMBDA d : d.id # dop'.feed_id)
    /\ RemoveDropsMarks
          => /\ DOMAIN read' = DOMAIN read \ {dop.feed_id}
             /\ \A g \in DOMAIN read' : read'[g] = read[g]
             /\ feeds' = feeds
    /\ RemoveReturns
          => /\ \A i \in 1 .. Len(feeds') : feeds'[i].id # dop.feed_id
             /\ dop.feed_id \notin DOMAIN read'

\* After the step, feeds.json holds no descriptor of the id and
\* read_store.json no read set of it.
FilesHoldNone(id) ==
    /\ dfile'["feeds"].kind = "full"
          => \A i \in 1 .. Len(dfile'["feeds"].data) :
                dfile'["feeds"].data[i].id # id
    /\ dfile'["read"].kind = "full" => id \notin DOMAIN dfile'["read"].data

\* After the step, feeds.json and read_store.json hold the feed list and
\* the read map.
RemoveInFiles ==
    /\ dfile'["feeds"] = Full(feeds')
    /\ dfile'["read"] = Full(read')

Permitted(url) ==
    \/ url.scheme = "https"
    \/ url.scheme = "http" /\ url.host \in {"localhost", "127.0.0.1", "::1"}

\* C19: for a url that parses, fetch_feed hands the request to the client
\* only when the scheme is https, or http with a loopback host; for every
\* other scheme and host the call returns UnsupportedScheme, no request
\* made.
C19_SchemeGate ==
    LET url == UrlParse(feed_url)
    IN url.ok
         => /\ sent => Permitted(url)
            /\ (fetch_pc = "returned" /\ ~Permitted(url))
                  => fetch_result = Err("unsupported_scheme")

\* The same over the urls whose scheme is http or https.
C19_SchemeGateHttp ==
    LET url == UrlParse(feed_url)
    IN (url.ok /\ url.scheme \in {"http", "https"})
         => /\ sent => Permitted(url)
            /\ (fetch_pc = "returned" /\ ~Permitted(url))
                  => (fetch_result = Err("unsupported_scheme") /\ ~sent)

\* C20: the buffered body never exceeds MAX_FEED_BYTES.  A declared
\* Content-Length above the cap ends the call with TooLarge before any chunk
\* is read; a chunk that would take the buffer over the cap is not appended
\* and ends the call (with TooLarge unless the stream gave an error); a
\* chunk that fits, also one that fills the buffer to the cap exactly, is
\* appended, and a body that ended within the cap goes to the parse.
C20_BodyCap ==
    [][ /\ bytes_buf' <= MAX_FEED_BYTES
        /\ ( /\ fetch_pc = "length"
             /\ IsSome(content_length)
             /\ Unwrap(content_length) > MAX_FEED_BYTES )
              => /\ fetch_result' = TooLarge(Unwrap(content_length))
                 /\ fetch_pc' = "returned"
                 /\ chunks_read' = 0 /\ bytes_buf' = 0
        /\ (fetch_pc = "stream" /\ stream # <<>>)
              => IF bytes_buf + Head(stream) > MAX_FEED_BYTES
                 THEN /\ bytes_buf' = bytes_buf
                      /\ fetch_pc' = "returned"
                      /\ fetch_result' \in
                            { TooLarge(bytes_buf + Head(stream)), Err("network") }
                 ELSE \/ fetch_result' = Err("network")
                      \/ /\ bytes_buf' = bytes_buf + Head(stream)
                         /\ fetch_pc' = "stream"
        /\ (fetch_pc = "stream" /\ stream = <<>>)
              => fetch_result' = ParseBody(FetchFeed, docs["f1"], now) ]_vars

\* A body of exactly MAX_FEED_BYTES was buffered and parsed.
C20_Witness ==
    /\ fetch_pc = "returned"
    /\ bytes_buf = MAX_FEED_BYTES
    /\ chunks_read >= 2
    /\ fetch_result.ok

\* C21: the parse of the fetched bytes returns the entries of the RSS items
\* when the bytes parse as RSS; else the entries of the Atom feed when they
\* parse as Atom; else the Parse error made of the RSS parser's error, not
\* of the Atom parser's.
C21_RssFirst ==
    [][ (fetch_pc = "stream" /\ stream = <<>>)
          => LET doc == docs["f1"]
                 rss == rss_read(doc)
                 atom == atom_read(doc)
             IN /\ fetch_pc' = "returned"
                /\ rss.ok
                     => /\ fetch_result'.ok
                        /\ fetch_result'.entries =
                              RssEntries(FetchFeed, rss.items, now)
                /\ (~rss.ok /\ atom.ok)
                     => /\ fetch_result'.ok
                        /\ fetch_result'.entries =
                              AtomEntries(FetchFeed, atom.entries, now)
                /\ (~rss.ok /\ ~atom.ok)
                     => /\ ~fetch_result'.ok
                        /\ fetch_result'.err = "parse"
                        /\ fetch_result'.cause = rss.err
                        /\ fetch_result'.cause # atom.err ]_vars

\* Bytes that both parsers read were parsed: the one entry of the RSS item
\* was returned, not the two of the Atom feed.
C21_Witness ==
    /\ fetch_pc = "returned"
    /\ docs["f1"].format = "both"
    /\ fetch_result.ok
    /\ Len(fetch_result.entries) = 1

\* Bytes that neither parser reads were parsed: the error returned is the
\* RSS parser's.
C21_WitnessBothFail ==
    /\ fetch_pc = "returned"
    /\ docs["f1"].format = "other"
    /\ fetch_result = ParseError("rss_err")

\* C22: every string identity() returns for an entry is "guid:" + guid when
\* the entry has a guid, whatever its url and title; else "url:" + url when
\* the url is not empty; else "title:" + title + "@" + the timestamp of
\* published_at, 0 when there is none; and a second call on the same entry
\* returns the same string.
C22_IdentityPrecedence ==
    /\ \A k \in 1 .. Len(id_out) :
          /\ id_entry.guid # None
                => id_out[k] = "guid:" \o id_entry.guid[1]
          /\ (id_entry.guid = None /\ id_entry.url # "")
                => id_out[k] = "url:" \o id_entry.url
          /\ (id_entry.guid = None /\ id_entry.url = "")
                => /\ id_entry.published_at # None
                        => id_out[k] = "title:" \o id_entry.title \o "@"
                                          \o ToString(id_entry.published_at[1])
                   /\ id_entry.published_at = None
                        => id_out[k] = "title:" \o id_entry.title \o "@0"
    /\ \A j, k \in 1 .. Len(id_out) : id_out[j] = id_out[k]

\* identity() was called twice on an entry that has a guid, a url and a
\* title.
C22_Witness ==
    /\ Len(id_out) = 2
    /\ id_entry.guid = Some("a") /\ id_entry.url = "u1" /\ id_entry.title = "t1"
    /\ id_out[1] = "guid:a"

\* C23: in every reachable state no task holds guards of more than one of
\* the four stores, no task waits for the lock of a store of which it holds
\* a guard, and whenever a task is inside an operation some task can take a
\* step: no interleaving deadlocks.
C23_NoNestedLocks ==
    /\ \A t \in LockTasks : Cardinality(HeldStores(t)) <= 1
    /\ \A t \in LockTasks : \A store \in LockStores :
          t \in Waiting(store) => store \notin HeldStores(t)
    /\ (\E t \in LockTasks : lk_prog[t] # <<>>) => ENABLED LockProgress

\* A DataApi caller holds a read guard of the read set while a second one
\* waits to write it, and the poller holds the write guard of the seen set
\* while the poll_once task waits for it.
C23_Witness ==
    /\ lk_held["api1"] = {<<"read", "r">>}
    /\ Len(lk_queue["read"]) = 1
    /\ lk_queue["read"][1] = [t |-> "api2", m |-> "w"]
    /\ lk_held["poller"] = {<<"seen", "w">>}
    /\ "once" \in Waiting("seen")

\* C24: when the poller has an event to emit and the channel is full, the
\* task is not blocked: it can take its next step (drop the batch and go on
\* to the next feed) without the front end receiving anything.
C24_FullChannelNoBlock ==
    (qpc = "send" /\ ~rxDropped /\ Len(chan) = ChanCap) => ENABLED PollerTask

\* A pass that ended got one result per feed of its list, built the events
\* of PassOutcome and left its seen set.
PassIsOutcome(pass) ==
    LET out == PassOutcome(pass.feeds, pass.results, pass.seen0)
    IN /\ Len(pass.results) = Len(pass.feeds)
       /\ pass.events = out.events
       /\ seen = out.data

\* C25: a poll_once call that returned and a scheduled cycle that ended are
\* the same function of the feed list, the fetch results and the seen set
\* they started from: the events poll_once returns, and the events the
\* cycle handed to the channel, are those of PassOutcome, in its order, and
\* the seen set is the one it leaves.
C25_SamePass ==
    /\ (cyc.once.done /\ opc = "idle") =>
          /\ PassIsOutcome(cyc.once)
          /\ oret[Len(oret)] = cyc.once.events
    /\ (cyc.poller.done /\ qpc = "select") => PassIsOutcome(cyc.poller)

\* A cycle ended after it built events for two feeds.
C25_Witness ==
    /\ cyc.poller.done /\ qpc = "select"
    /\ Len(cyc.poller.events) = 2
    /\ cyc.poller.seen0 # seen

\* A poll_once call returned an event, one fetch having failed.
C25_WitnessOnce ==
    /\ cyc.once.done /\ opc = "idle"
    /\ Len(oret[Len(oret)]) = 1
    /\ \E k \in 1 .. Len(cyc.once.results) : ~cyc.once.results[k].ok

\* C26: over all the events built by the poller and the poll_once calls on
\* one seen store, whatever their interleaving, a (feed_id, identity) pair
\* occurs at most once.
C26_PairOnce == \A p \in DOMAIN emitted : Len(emitted[p]) <= 1

\* Two runners filtered the same feed at the same time and each got one of
\* its entries.
C26_Witness ==
    \E p, q \in DOMAIN emitted :
        /\ p[1] = q[1]
        /\ emitted[p] = <<"poller">>
        /\ emitted[q] = <<"once">>
        /\ race_passes = [t \in Runners |-> 1]

\* C27: once the stop signal has been sent no cycle starts: no step after
\* it takes the tick branch of the select, a tick being ready or not.
C27_NoCycleAfterStop == [][cancelSent => qcycles' = qcycles]_vars

\* C28: the task leaves its loop only with its cycle complete, whenever the
\* stop signal was sent: every feed of the snapshot was fetched, its entries
\* marked and its event handed to the channel, none left out.
C28_CycleNotInterrupted ==
    (qpc = "exited" /\ qcycles > 0) =>
        /\ qsnap = <<>>
        /\ qevt = NoEvent
        /\ cyc.poller.done
        /\ Len(cyc.poller.results) = Len(cyc.poller.feeds)
        /\ cyc.poller.events =
              PassOutcome(cyc.poller.feeds, cyc.poller.results,
                          cyc.poller.seen0).events

\* stop was called while the task of the first cycle waited to send the
\* event of the first feed: the event was sent and the second feed fetched
\* after the call, and stop returned after the task left its loop.
C28_Witness ==
    /\ stopState = "returned"
    /\ stopAt = "send"
    /\ qpc = "exited"
    /\ qcycles = 1
    /\ ~rxDropped
    /\ Len(chan) = 1
    /\ chan[1].feed_id = cyc.poller.feeds[1].id
    /\ Len(cyc.poller.results) = 2

\* The events a poll_once call is building or has returned.
OnceEvents ==
    { oout[k] : k \in 1 .. Len(oout) }
      \cup UNION { { oret[c][k] : k \in 1 .. Len(oret[c]) } :
                    c \in 1 .. Len(oret) }

\* C29: with the receiver dropped the poller task goes on: it does not
\* leave its loop; the identities of the batches it dropped stay
\* marked seen; and none of them is in an event the poller builds later or
\* a poll_once call builds or returns.
C29_DroppedStaySeen ==
    /\ qpc \in {"select", "cycle", "send"}
    /\ \A p \in qdropped : SeenContains(seen, p[1], p[2])
    /\ Pairs(qevt.entries) \cap qdropped = {}
    /\ \A ev \in OnceEvents : Pairs(ev.entries) \cap qdropped = {}

\* A batch was dropped in the first cycle; the second cycle fetched the
\* same entries and built nothing, and a poll_once call started after the
\* drop fetched them too and returned nothing.
C29_Witness ==
    /\ rxDropped
    /\ qdropped # {}
    /\ qcycles = 2 /\ qpc = "select" /\ cyc.poller.done
    /\ cyc.poller.events = <<>>
    /\ \E k \in 1 .. Len(cyc.poller.results) :
          /\ cyc.poller.results[k].ok
          /\ Pairs(cyc.poller.results[k].entries) \cap qdropped # {}
    /\ cyc.once.done /\ opc = "idle"
    /\ \A p \in qdropped : SeenContains(cyc.once.seen0, p[1], p[2])
    /\ oret[Len(oret)] = <<>>
    /\ \E k \in 1 .. Len(cyc.once.results) :
          /\ cyc.once.results[k].ok
          /\ Pairs(cyc.once.results[k].entries) \cap qdropped # {}

\* C30: once the front end runs, every (feed_id, identity) pair of a batch
\* it obtained, from its poll at the start, from a one-shot poll or from
\* the channel, has been handed to upsert_articles.
C30_ObtainedUpserted ==
    app_pc = "running" => app_obtained \subseteq app_upserted

\* ------------------------------------------------------------------------
\* C31.  Removing a feed changes only the feed list and the read set: the
\* article cache and the seen set are the same after the removal as before
\* it, so list_articles still returns the articles of the removed feed; and
\* no one-shot poll, the one of a feed added again under its old id
\* included, reports an identity that the seen set already held.
C31_RemoveKeepsCacheAndSeen ==
    [][ /\ (Len(feeds') < Len(feeds) =>
               /\ articles' = articles
               /\ seen' = seen
               /\ \A f \in FeedIds :
                     list_articles(articles', f) = list_articles(articles, f))
        /\ (app_polls' # app_polls =>
               \A p \in app_last'.reported : ~SeenContains(seen, p[1], p[2]))
      ]_vars

\* f1 was removed with identities in the seen set and is in the list
\* again: its articles are still listed, and the last poll fetched an
\* entry seen before the removal and reported nothing.
C31_Witness ==
    /\ \E k \in 1 .. Len(feeds) : feeds[k].id = "f1"
    /\ list_articles(articles, "f1") # <<>>
    /\ \E p \in app_last.fetched \cap app_removed : p[1] = "f1"
    /\ app_last.reported = {}


\* ------------------------------------------------------------------------
\* C32.  As the code has it: the seen set of a feed only grows.  No step
\* takes an identity out of it, neither while the feed is in the list nor
\* when the feed is removed.
C32_SeenNeverShrinks ==
    [][ \A f \in DOMAIN seen :
          f \in DOMAIN seen' /\ seen[f] \subseteq seen'[f] ]_vars

\* A removed feed is out of the list and every identity the seen set held
\* for it at the removal is still there.
C32_Witness ==
    /\ app_removed # {}
    /\ \A p \in app_removed :
          /\ SeenContains(seen, p[1], p[2])
          /\ \A k \in 1 .. Len(feeds) : feeds[k].id # p[1]

\* C32 as stated: the seen set of a feed grows while the feed is in the
\* list, and the step that removes the feed leaves no identity for it.
C32_SeenClearedOnRemove ==
    [][ /\ \A k \in 1 .. Len(feeds) :
              (\E j \in 1 .. Len(feeds') : feeds'[j].id = feeds[k].id) =>
                  SeenPairsOf(seen, feeds[k].id)
                      \subseteq SeenPairsOf(seen', feeds[k].id)
        /\ \A k \in 1 .. Len(feeds) :
              (\A j \in 1 .. Len(feeds') : feeds'[j].id # feeds[k].id) =>
                  SeenPairsOf(seen', feeds[k].id) = {} ]_vars


\* ------------------------------------------------------------------------
\* Claims on the merge of upsert_articles.

\* The step that starts an upsert_articles call: the merge, the sort and
\* the truncation are done in it.
UpsertStarts == dpc = "idle" /\ dop'.name = "upsert_articles"

\* An upsert leaves every stored entry it keeps as it was, and takes of the
\* batch, for an identity not stored, the first entry that has it.
KeepsStored(old, new, batch) ==
    /\ \A i \in 1 .. Len(old), j \in 1 .. Len(new) :
          identity(new[j]) = identity(old[i]) => new[j] = old[i]
    /\ \A j \in 1 .. Len(new) :
          identity(new[j]) \notin Identities(old) =>
             \E i \in 1 .. Len(batch) :
                /\ batch[i] = new[j]
                /\ \A h \in 1 .. i - 1 : identity(batch[h]) # identity(batch[i])

\* C33, with the condition it needs: upsert_articles never replaces or
\* modifies a stored entry, an incoming entry whose identity is stored or
\* came earlier in the batch is dropped; and when the stored sequence and
\* the batch have no more than MAX_PER_FEED identities together, the same
\* batch upserted again leaves the cache as it is.
C33_KeepsStoredEntries ==
    [][ UpsertStarts =>
          LET f == dop'.feed_id
              old == list_articles(articles, f)
              new == list_articles(articles', f)
          IN /\ KeepsStored(old, new, dop'.entries)
             /\ Cardinality(Identities(old) \cup Identities(dop'.entries))
                    <= MAX_PER_FEED
                  => UpsertInto(articles', f, dop'.entries) = articles' ]_vars

\* An upsert was given an entry that has the identity of a stored entry
\* and other field values, and the sequence holds the stored one.
C33_Witness ==
    /\ dop.name = "upsert_articles"
    /\ dpc = "p_open"
    /\ \E i \in 1 .. Len(dop.entries) :
          \E j \in 1 .. Len(articles[dop.feed_id]) :
             /\ identity(dop.entries[i]) = identity(articles[dop.feed_id][j])
             /\ dop.entries[i] # articles[dop.feed_id][j]
             /\ \A h \in 1 .. Len(articles[dop.feed_id]) :
                   articles[dop.feed_id][h] # dop.entries[i]

\* C33 as stated: stored entries are kept as they are, and the same batch
\* upserted a second time always leaves the cache of the first upsert.
C33_UpsertTwiceAsOnce ==
    [][ UpsertStarts =>
          LET f == dop'.feed_id
              old == list_articles(articles, f)
              new == list_articles(articles', f)
          IN /\ KeepsStored(old, new, dop'.entries)
             /\ UpsertInto(articles', f, dop'.entries) = articles' ]_vars


\* The entry that stands for an identity in the union of a stored sequence
\* and a batch: the stored entry, or else the first of the batch.
UnionEntry(old, batch, id) ==
    LET both == old \o batch
        k == CHOOSE i \in 1 .. Len(both) :
                /\ identity(both[i]) = id
                /\ \A h \in 1 .. i - 1 : identity(both[h]) # id
    IN both[k]

\* b is not newer than a: a date is newer than no date, and than every
\* earlier date.
NotNewer(b, a) ==
    \/ b.published_at = None
    \/ a.published_at # None /\ Unwrap(b.published_at) <= Unwrap(a.published_at)

\* C34.  After an upsert the sequence of the feed holds one entry for each
\* of the first MAX_PER_FEED identities of the union of the stored sequence
\* and the batch, newest first and the undated last: it has as many entries
\* as the union has identities, up to MAX_PER_FEED, each is the union's
\* entry of its identity, and no entry left out is newer than one kept.
C34_NewestKept ==
    [][ UpsertStarts =>
          LET f == dop'.feed_id
              old == list_articles(articles, f)
              new == list_articles(articles', f)
              ids == Identities(old) \cup Identities(dop'.entries)
              n == IF Cardinality(ids) > MAX_PER_FEED
                   THEN MAX_PER_FEED ELSE Cardinality(ids)
          IN /\ Len(new) = n
             /\ Cardinality(Identities(new)) = n
             /\ \A j \in 1 .. n :
                   /\ identity(new[j]) \in ids
                   /\ new[j] = UnionEntry(old, dop'.entries, identity(new[j]))
             /\ \A i, j \in 1 .. n : i < j => NotNewer(new[j], new[i])
             /\ \A id \in ids \ Identities(new) :
                   \A j \in 1 .. n :
                      NotNewer(UnionEntry(old, dop'.entries, id), new[j]) ]_vars

\* An upsert has truncated a dated incoming entry away: the sequence is
\* full and does not hold its identity.
C34_Witness ==
    /\ dop.name = "upsert_articles"
    /\ dpc = "p_open"
    /\ Len(articles[dop.feed_id]) = MAX_PER_FEED
    /\ \E i \in 1 .. Len(dop.entries) :
          /\ dop.entries[i].published_at # None
          /\ identity(dop.entries[i]) \notin Identities(articles[dop.feed_id])


\* ------------------------------------------------------------------------
\* Claims on the dates and identities a fetch gives.

AllDated(entries) ==
    \A k \in 1 .. Len(entries) : entries[k].published_at # None

\* The fetch results and the events of the passes under way or ended, and
\* the events in the channel.
FetchedSoFar ==
    UNION { { cyc[w].results[k] : k \in 1 .. Len(cyc[w].results) } :
              w \in DOMAIN cyc }

EventsSoFar ==
    OnceEvents
      \cup { chan[k] : k \in 1 .. Len(chan) }
      \cup UNION { { cyc[w].events[k] : k \in 1 .. Len(cyc[w].events) } :
                    w \in DOMAIN cyc }

\* C35: every entry a fetch returned has a published_at, and so has every
\* entry of an event built, returned or sent.
C35_EntriesDated ==
    /\ \A r \in FetchedSoFar : r.ok => AllDated(r.entries)
    /\ \A ev \in EventsSoFar : AllDated(ev.entries)
    /\ qevt # NoEvent => AllDated(qevt.entries)

\* The clock has moved, and the poller sent an event with the entry of an
\* item that has no pubDate: its date is the second of the fetch.
C35_Witness ==
    /\ now = 1
    /\ \E k \in 1 .. Len(chan) :
          \E i \in 1 .. Len(chan[k].entries) :
             /\ chan[k].entries[i].title = "t5"
             /\ chan[k].entries[i].published_at = Some(1)


\* The RSS item has no guid, no link or an empty one, and no date that
\* parses.
TitleOnly(item) ==
    /\ item.guid = None
    /\ item.link \in {None, Some("")}
    /\ from_rss_item("f1", item).published_at = None

\* C36.  When a poll_once call fetches an RSS document, the entry of an
\* item without guid, link and date has the second of the fetch as its
\* date and "title:" + title + "@" + that second as its identity, which is
\* not its identity of any other second; and unless the seen set holds it
\* from this very second, the entry is in the event built for the feed and
\* its identity is marked.
C36_TitleIdentityPerSecond ==
    [][ Len(cyc'.once.results) = Len(cyc.once.results) + 1 =>
          LET n == Len(cyc'.once.results)
              r == cyc'.once.results[n]
              f == cyc'.once.feeds[n].id
              evs == cyc'.once.events
          IN (r.ok /\ docs[f].format = "rss") =>
               \A k \in 1 .. Len(r.entries) :
                  TitleOnly(docs[f].items[k]) =>
                     LET e == r.entries[k]
                     IN /\ e.published_at = Some(now)
                        /\ identity(e) = "title:" \o e.title \o "@" \o ToString(now)
                        /\ \A t \in 0 .. MaxClock :
                              t # now =>
                                identity([e EXCEPT !.published_at = Some(t)])
                                   # identity(e)
                        /\ SeenContains(seen', f, identity(e))
                        /\ ~SeenContains(seen, f, identity(e)) =>
                              /\ evs # <<>>
                              /\ evs[Len(evs)].feed_id = f
                              /\ \E i \in 1 .. Len(evs[Len(evs)].entries) :
                                    evs[Len(evs)].entries[i] = e ]_vars

\* Two poll_once calls fetched the same document of one title-only item,
\* one in second 0 and one in second 1: each returned the entry as new,
\* and the seen set holds both identities.
C36_Witness ==
    /\ Len(oret) = 2
    /\ docs["f1"] = RssDoc(<< RssItem(Some("t5"), None, None, None) >>)
    /\ \A c \in 1 .. 2 :
          /\ Len(EventsOf(oret[c], "f1")) = 1
          /\ EventsOf(oret[c], "f1")[1].entries =
                << FeedEntry("f1", "t5", "", Some(c - 1), None) >>
    /\ seen["f1"] = {"title:t5@0", "title:t5@1"}


\* ------------------------------------------------------------------------
\* C37.  A scheduled cycle works on the snapshot of its tick: the tick
\* copies the feed list; a change of the feed list leaves the cycle under
\* way as it is; the feeds still to poll are always the rest of the
\* snapshot in list order; each fetch is of the next snapshot feed and
\* builds at most one event, for that feed and with entries; and what is
\* sent is the event just built.
C37_CycleOverSnapshot ==
    [][ /\ qcycles' # qcycles =>
              /\ qsnap' = feeds
              /\ cyc'.poller.feeds = feeds
              /\ cyc'.poller.results = <<>>
        /\ feeds' # feeds => (qsnap' = qsnap /\ cyc'.poller = cyc.poller)
        /\ qcycles' = qcycles =>
              LET pass == cyc'.poller
                  n == Len(pass.results)
                  m == Len(pass.events)
              IN /\ n <= Len(pass.feeds)
                 /\ qsnap' = SubSeq(pass.feeds, n + 1, Len(pass.feeds))
                 /\ n = Len(cyc.poller.results) => pass.events = cyc.poller.events
                 /\ n # Len(cyc.poller.results) =>
                       /\ n = Len(cyc.poller.results) + 1
                       /\ pass.results[n].ok =>
                             \A k \in 1 .. Len(pass.results[n].entries) :
                                pass.results[n].entries[k].feed_id
                                   = pass.feeds[n].id
                       /\ \/ pass.events = cyc.poller.events
                          \/ /\ m = Len(cyc.poller.events) + 1
                             /\ SubSeq(pass.events, 1, m - 1) = cyc.poller.events
                             /\ pass.events[m].feed_id = pass.feeds[n].id
                             /\ pass.events[m].entries # <<>>
        /\ Len(chan') > Len(chan) =>
              /\ chan' = Append(chan, qevt)
              /\ qevt = cyc.poller.events[Len(cyc.poller.events)]
              /\ qevt.entries # <<>>
      ]_vars

\* f2 was removed after the tick and before its fetch: the cycle fetched
\* it all the same and is about to send its event.
C37_Witness ==
    /\ qpc = "send"
    /\ qevt.feed_id = "f2"
    /\ \A k \in 1 .. Len(feeds) : feeds[k].id # "f2"
    /\ Pairs(qevt.entries) \cap app_removed = {}
    /\ \E k \in 1 .. Len(cyc.poller.feeds) : cyc.poller.feeds[k].id = "f2"

\* f1 was added while a cycle was under way whose snapshot does not have
\* it: the cycle has ended without a fetch of f1.
C37_WitnessAdded ==
    /\ qpc = "select"
    /\ cyc.poller.done
    /\ cyc.poller.feeds # <<>>
    /\ \A k \in 1 .. Len(cyc.poller.feeds) : cyc.poller.feeds[k].id # "f1"
    /\ \E k \in 1 .. Len(feeds) : feeds[k].id = "f1"
    /\ Len(cyc.poller.results) = Len(cyc.poller.feeds)


\* ------------------------------------------------------------------------
\* C38: a seen_store.json that does not parse, beside a temp file that
\* does, loads as the temp file's identities.  Stated on the store as
\* load_from built it, before any call: at the start and after a kill.
C38_LoadRescuesFromTemp ==
    (/\ \A t \in Tasks : tpc[t] = "idle"
     /\ seen = seenInit
     /\ seenFile = Corrupt
     /\ seenTmp.kind = "full") => seen = seenTmp.data


\* ------------------------------------------------------------------------
\* C39: when the temp file of a persist does not hold the complete new
\* serialization, its open or its write having failed, the step that
\* follows leaves the primary file as it was.
C39_FailedWriteKeepsPrimary ==
    [][ (/\ dpc = "p_rename"
         /\ dkills' = dkills
         /\ dtmp[pstore] # Full(pbytes))
          => dfile'[pstore] = dfile[pstore] ]_vars


====
